---------------------------- MODULE Spec2Model ----------------------------
(***************************************************************************)
(* A model of proto-island's world generation: the cave automaton and its  *)
(* connectivity repair (cave.py), the layered GameMap with its transition  *)
(* table (map.py) and the BSP building generator (structure.py); and of   *)
(* its quests (quest.py) and inventories (inventory.py).                   *)
(*                                                                         *)
(* Each subsystem has its own specification over a shared set of           *)
(* variables; the variables of the other subsystems stay at their idle     *)
(* values:                                                                 *)
(*   SpecCave   CaveGenerator.generate: automaton rounds, then repair      *)
(*   SpecBuild  generate_building and generate_multi_floor_building        *)
(*   SpecMap    the operations of a GameMap, generate_buildings and        *)
(*              add_buildings_to_map on it                                 *)
(*   SpecDet    two calls of generate_buildings with equal arguments       *)
(*   SpecQuest  the state changes of Quest objects (quest.py)              *)
(*   SpecInv    add_item and remove_item on an Inventory (inventory.py)    *)
(***************************************************************************)
EXTENDS Integers, Sequences, FiniteSets, TLC

VARIABLES
    \* ---- CaveGenerator.generate (cave.py) ----
    params,          \* CaveParams: birth_limit, death_limit
    cave,            \* the grid of the automaton loop, TRUE = wall
    iteration,       \* automaton rounds performed so far
    labeled_array,   \* _ensure_connectivity: the open regions, by label
    largest_region,  \* _ensure_connectivity: the label of the largest one
    connected_cave,  \* _ensure_connectivity's working copy
    region,          \* _ensure_connectivity's loop variable
    cavePc,          \* "automata" | "connect" | "done"
    \* ---- StructureGenerator.generate_building,
    \*      generate_multi_floor_building (structure.py) ----
    call,            \* the arguments of the call
    bpc,             \* "idle" | "split" | "rooms" | "connect" | "floor" |
                     \* "vertical" | "done"
    floor,           \* the floor being laid out, then the loop variable of
                     \* _generate_vertical_connections
    rng,             \* the generator of the layout being made
    mrng,            \* generate_multi_floor_building's own generator
    root,            \* the root node: the footprint of the floor
    leaf_nodes,      \* the leaves of the partition, in list order
    nodes_to_process,
    new_nodes,
    node_idx,        \* position of `for node in nodes_to_process`
    bsp_iteration,   \* `iteration` of the splitting loop
    node,            \* the node the splitting loop handled last
    rooms,           \* the rooms of the floor being laid out
    leaf_idx,        \* position of `for node in leaf_nodes`
    building,        \* the building dictionary
    \* ---- GameMap (map.py) ----
    game_map,        \* the GameMap object
    error,           \* the exception the last operation raised, or None
    ops,             \* operations performed on the map so far
    last_op,         \* the last operation called: name, arguments, result
    before,          \* the GameMap as it was when that operation was called
    kept,            \* per level, the terrain grid it had when last left
    \* ---- StructureGenerator.generate_buildings, add_buildings_to_map ----
    gen_call,        \* the arguments of the call
    gpc,             \* "idle" | "place" | "build" | "register" | "done"
    gen_i,           \* `i` of `for i in range(count)`
    multi_floor_count,
    buildings,       \* the list of buildings made so far
    grng,            \* generate_buildings' generator
    run,             \* which of two calls with equal arguments is running
    first_buildings, \* the list the first of the two calls returned
    \* ---- Quest (quest.py) ----
    quests,          \* the Quest objects: state, can_fail
    quest_op,        \* the last method called on a quest, and the state the
                     \* quest had then
    quest_error,     \* the exception that call raised, or NoError
    \* ---- Inventory, Item (inventory.py) ----
    item_objects,    \* the Item objects, by identity
    inventory,       \* the Inventory: capacity, current_weight, items (a
                     \* list of item identities)
    inv_op           \* the last method called, its result and the
                     \* inventory as it was then

caveVars == <<params, cave, iteration, labeled_array, largest_region,
              connected_cave, region, cavePc>>

buildVars == <<call, bpc, floor, rng, mrng, root, leaf_nodes,
               nodes_to_process, new_nodes, node_idx, bsp_iteration, node,
               rooms, leaf_idx, building>>

mapVars == <<game_map, error, ops, last_op, before, kept>>

genVars == <<gen_call, gpc, gen_i, multi_floor_count, buildings, grng, run,
             first_buildings>>

questVars == <<quests, quest_op, quest_error>>

invVars == <<item_objects, inventory, inv_op>>

vars == <<caveVars, buildVars, mapVars, genVars, questVars, invVars>>

\* Python's None, and an absent optional value: the empty tuple. An optional
\* integer n is the tuple <<n>>.
None == << >>

Abs(n) == IF n < 0 THEN -n ELSE n
Min2(a, b) == IF a < b THEN a ELSE b
Max2(a, b) == IF a > b THEN a ELSE b
SetMin(S) == CHOOSE m \in S : \A n \in S : m <= n
SetMax(S) == CHOOSE m \in S : \A n \in S : m >= n

\* The variables of the building generator while no call is running.
IdleBuild ==
    /\ call = None
    /\ bpc = "idle"
    /\ floor = 0
    /\ rng = None
    /\ mrng = None
    /\ root = None
    /\ leaf_nodes = << >>
    /\ nodes_to_process = << >>
    /\ new_nodes = << >>
    /\ node_idx = 0
    /\ bsp_iteration = 0
    /\ node = None
    /\ rooms = << >>
    /\ leaf_idx = 0
    /\ building = None

\* The value of `error` while no exception has been raised.
NoError == "none"

\* The record of an operation called on the map.
Called(name, args, result) == [name |-> name, args |-> args, result |-> result]

\* The variables of the map while there is no map.
IdleMap ==
    /\ game_map = None
    /\ error = NoError
    /\ ops = 0
    /\ last_op = Called("none", << >>, None)
    /\ before = None
    /\ kept = << >>

\* The variables of generate_buildings while no call is running.
IdleGen ==
    /\ gen_call = None
    /\ gpc = "idle"
    /\ gen_i = 0
    /\ multi_floor_count = 0
    /\ buildings = << >>
    /\ grng = None
    /\ run = 0
    /\ first_buildings = << >>

\* The variables of the quests while there is no quest.
IdleQuest ==
    /\ quests = << >>
    /\ quest_op = None
    /\ quest_error = NoError

\* The variables of the inventory while there is no inventory.
IdleInv ==
    /\ item_objects = << >>
    /\ inventory = None
    /\ inv_op = None

\* The variables of the cave generator while no call is running.
IdleCave ==
    /\ params = None
    /\ cave = None
    /\ iteration = 0
    /\ labeled_array = << >>
    /\ largest_region = 0
    /\ connected_cave = None
    /\ region = 0
    /\ cavePc = "idle"

(***************************************************************************)
(*                              cave.py                                    *)
(***************************************************************************)

\* Bounds of the cave model.
CaveWidth == 4
CaveHeight == 4
MaxIterations == 2
\* _ensure_connectivity samples at most 20 cells of a region (cave.py:126,
\* 133); the cap is scaled to the grid so that a sample is a proper part
\* of a region and the pair it finds need not be the closest one.
SampleCap == 1

\* A grid is a function over its cells in row-major order, as numpy stores
\* it: cell y * width + x.
CaveCells == 0 .. (CaveWidth * CaveHeight - 1)
CaveX(c) == c % CaveWidth
CaveY(c) == c \div CaveWidth
CaveCell(y, x) == y * CaveWidth + x

\* CaveParams(birth_limit, death_limit): the pairs the model draws, one with
\* death_limit < birth_limit and one with death_limit > birth_limit. On a
\* grid this small the forced border gives an interior cell 5 of its 8
\* neighbours, so the limits lie above 5 for both rules to decide cells.
CaveParamChoices ==
    { [birth_limit |-> 7, death_limit |-> 6],
      [birth_limit |-> 6, death_limit |-> 7] }

\* mutant of IsBorder: the last column is not forced
IsBorderNoLastColumn(c) ==
    \/ CaveY(c) = 0
    \/ CaveY(c) = CaveHeight - 1
    \/ CaveX(c) = 0

\* new_cave[0, :], new_cave[-1, :], new_cave[:, 0], new_cave[:, -1]
IsBorder(c) ==
    \/ CaveY(c) = 0
    \/ CaveY(c) = CaveHeight - 1
    \/ CaveX(c) = 0
    \/ CaveX(c) = CaveWidth - 1

\* The 3x3 kernel with kernel[1, 1] = 0: the cells of the grid around c.
Kernel ==
    [ c \in CaveCells |->
        { d \in CaveCells :
            /\ d # c
            /\ Abs(CaveX(d) - CaveX(c)) <= 1
            /\ Abs(CaveY(d) - CaveY(c)) <= 1 } ]

\* mutant of neighbor_count: the kernel's centre is 1, the cell counts itself
neighbor_count_with_self(g, c) ==
    Cardinality({ d \in Kernel[c] \cup {c} : g[d] })

\* convolve2d(cave, kernel, mode='same'): the walls among the 8 neighbours,
\* cells outside the grid counting as 0.
neighbor_count(g, c) == Cardinality({ d \in Kernel[c] : g[d] })

\* _apply_automata_rules: the birth rule is written first and the death
\* rule second, so the death rule wins where both apply; the border is
\* forced last.
ApplyAutomataRules(g, p) ==
    [ c \in CaveCells |->
        IF IsBorder(c) THEN TRUE
        ELSE LET n == neighbor_count(g, c)
             IN  IF n < p.death_limit THEN FALSE
                 ELSE IF n >= p.birth_limit THEN TRUE
                 ELSE g[c] ]

OpenCells(g) == { c \in CaveCells : ~g[c] }

\* The cells that share an edge with c.
Adjacent4 ==
    [ c \in CaveCells |->
        { d \in CaveCells :
            \/ CaveY(c) = CaveY(d) /\ Abs(CaveX(c) - CaveX(d)) = 1
            \/ CaveX(c) = CaveX(d) /\ Abs(CaveY(c) - CaveY(d)) = 1 } ]

\* The cells of `open` a 4-connected flood fill reaches: `seen` are the
\* cells reached so far, `frontier` those reached in the last round.
RECURSIVE FloodFrom(_, _, _)
FloodFrom(open, seen, frontier) ==
    LET new == (UNION { Adjacent4[c] : c \in frontier } \cap open) \ seen
    IN  IF new = {} THEN seen ELSE FloodFrom(open, seen \cup new, new)

Flood(open, start) == FloodFrom(open, start, start)

\* scipy.ndimage.label with its default (4-connected) structure: the
\* regions numbered 1.. in the order a row-major scan meets them.
RECURSIVE LabelFrom(_, _)
LabelFrom(open, acc) ==
    IF open = {} THEN acc
    ELSE LET r == Flood(open, {SetMin(open)})
         IN  LabelFrom(open \ r, Append(acc, r))

Label(g) == LabelFrom(OpenCells(g), <<>>)

\* np.argmax(region_sizes[1:]) + 1: the first region of the largest size.
LargestRegion(regions) ==
    SetMin({ i \in 1 .. Len(regions) :
               \A j \in 1 .. Len(regions) :
                   Cardinality(regions[j]) <= Cardinality(regions[i]) })

\* The parts of `points` of k cells.
RECURSIVE KSubsets(_, _)
KSubsets(points, k) ==
    IF k = 0 THEN { {} }
    ELSE UNION { { {x} \cup s : s \in KSubsets({ y \in points : y > x }, k - 1) } :
                 x \in points }

\* rng.choice(n, min(20, n), replace=False): a part of `points` of that size.
Samples(points) == KSubsets(points, Min2(SampleCap, Cardinality(points)))

Manhattan(c, d) == Abs(CaveX(d) - CaveX(c)) + Abs(CaveY(d) - CaveY(c))

\* The pairs <<source, target>> the nested sampling loops can leave in
\* best_path: S is the sample of the region, T[s] the sample of the largest
\* region drawn for s, and the pair kept is the first of minimal distance in
\* the (random) order of the two loops, so any minimal pair can be it.
BestPaths(S, T) ==
    LET pairs == { <<s, t>> \in S \X UNION { T[s] : s \in S } : t \in T[s] }
    IN  { p \in pairs :
            \A q \in pairs : Manhattan(p[1], p[2]) <= Manhattan(q[1], q[2]) }

\* points_to_clear: the row of the source between the two columns, then the
\* column of the target between the two rows.
TunnelCells(p1, p2) ==
    { CaveCell(CaveY(p1), x) :
        x \in Min2(CaveX(p1), CaveX(p2)) .. Max2(CaveX(p1), CaveX(p2)) }
    \cup
    { CaveCell(y, CaveX(p2)) :
        y \in Min2(CaveY(p1), CaveY(p2)) .. Max2(CaveY(p1), CaveY(p2)) }

\* 0 < ny < shape[0] - 1 and 0 < nx < shape[1] - 1
\* mutant of IsInterior: the 3x3 block is clipped to the grid, not the interior
IsInteriorOrBorder(c) ==
    /\ 0 <= CaveY(c) /\ CaveY(c) <= CaveHeight - 1
    /\ 0 <= CaveX(c) /\ CaveX(c) <= CaveWidth - 1

IsInterior(c) ==
    /\ 0 < CaveY(c) /\ CaveY(c) < CaveHeight - 1
    /\ 0 < CaveX(c) /\ CaveX(c) < CaveWidth - 1

\* mutant of ClearedCells: the tunnel only follows the target's column
ClearedCellsColumnOnly(p1, p2) ==
    { CaveCell(y, CaveX(p2)) :
        y \in Min2(CaveY(p1), CaveY(p2)) .. Max2(CaveY(p1), CaveY(p2)) }

\* The cells one tunnel sets to open: the tunnel itself, and every interior
\* cell of the 3x3 block around a tunnel cell.
ClearedCells(p1, p2) ==
    LET tunnel == TunnelCells(p1, p2)
    IN  tunnel \cup
        { d \in CaveCells :
            IsInterior(d) /\ (d \in tunnel \/ Kernel[d] \cap tunnel # {}) }

\* mutant of Carve: the tunnel is drawn on a grid of walls, not on the copy
CarveOnWalls(g, p1, p2) ==
    LET cleared == ClearedCells(p1, p2)
    IN  [ c \in CaveCells |-> c \notin cleared ]

Carve(g, p1, p2) ==
    LET cleared == ClearedCells(p1, p2)
    IN  [ c \in CaveCells |-> IF c \in cleared THEN FALSE ELSE g[c] ]

\* CaveGenerator(params).generate: rng.random((height, width)) < p can come
\* out as any grid.
InitCave ==
    /\ params \in CaveParamChoices
    /\ cave \in [CaveCells -> BOOLEAN]
    /\ iteration = 0
    /\ labeled_array = <<>>
    /\ largest_region = 0
    /\ connected_cave = None
    /\ region = 0
    /\ cavePc = "automata"
    /\ IdleBuild
    /\ IdleMap
    /\ IdleGen
    /\ IdleQuest
    /\ IdleInv

\* One round of `for _ in range(self.params.iterations)`; the number of
\* rounds is the parameter `iterations`, any value up to MaxIterations.
Iterate ==
    /\ cavePc = "automata"
    /\ iteration < MaxIterations
    /\ cave' = ApplyAutomataRules(cave, params)
    /\ iteration' = iteration + 1
    /\ UNCHANGED <<params, labeled_array, largest_region, connected_cave,
                   region, cavePc>>
    /\ UNCHANGED <<buildVars, mapVars, genVars, questVars, invVars>>

\* _ensure_connectivity up to its loop: label the open cells, return the
\* input when there is at most one region, else find the largest region
\* and copy the grid.
BeginConnectivity ==
    /\ cavePc = "automata"
    /\ LET regions == Label(cave)
       IN  /\ labeled_array' = regions
           /\ connected_cave' = cave
           /\ IF Len(regions) <= 1
              THEN cavePc' = "done" /\ region' = 0 /\ largest_region' = 0
              ELSE /\ cavePc' = "connect"
                   /\ region' = 1
                   /\ largest_region' = LargestRegion(regions)
    /\ UNCHANGED <<params, cave, iteration>>
    /\ UNCHANGED <<buildVars, mapVars, genVars, questVars, invVars>>

\* One round of `for region in range(1, num_features + 1)`: the largest
\* region is skipped, any other is joined to it by a tunnel.
ConnectRegion ==
    /\ cavePc = "connect"
    /\ IF region = largest_region
       THEN connected_cave' = connected_cave
       ELSE \E best_path \in
                UNION { UNION { BestPaths(S, T) :
                                  T \in [S -> Samples(labeled_array[largest_region])] } :
                        S \in Samples(labeled_array[region]) } :
                connected_cave' =
                    Carve(connected_cave, best_path[1], best_path[2])
    /\ IF region = Len(labeled_array)
       THEN cavePc' = "done" /\ region' = 0
       ELSE cavePc' = "connect" /\ region' = region + 1
    /\ UNCHANGED <<params, cave, iteration, labeled_array, largest_region>>
    /\ UNCHANGED <<buildVars, mapVars, genVars, questVars, invVars>>

NextCave == Iterate \/ BeginConnectivity \/ ConnectRegion

SpecCave == InitCave /\ [][NextCave]_vars

-----------------------------------------------------------------------------
(***************************************************************************)
(*                         Claims about cave.py                            *)
(***************************************************************************)

\* C1: the grid _ensure_connectivity returns has a single open region: a
\* 4-connected flood fill from any open cell reaches every open cell.
C1_SingleOpenRegion ==
    cavePc = "done" =>
        \A c \in OpenCells(connected_cave) :
            Flood(OpenCells(connected_cave), {c}) = OpenCells(connected_cave)

\* C1 witness: a repaired grid whose input had several open regions.
C1_Witness ==
    /\ cavePc = "done"
    /\ Len(labeled_array) >= 3
    /\ connected_cave # cave

\* C2: after one or more automaton rounds every cell of the first and last
\* row and of the first and last column is a wall.
C2_BorderIsWall ==
    iteration >= 1 =>
        \A c \in CaveCells :
            (\/ CaveY(c) = 0 \/ CaveY(c) = CaveHeight - 1
             \/ CaveX(c) = 0 \/ CaveX(c) = CaveWidth - 1) => cave[c]

\* C2 witness: two rounds have run and the interior still has an open cell.
C2_Witness ==
    /\ iteration = MaxIterations
    /\ cavePc = "automata"
    /\ OpenCells(cave) # {}

-----------------------------------------------------------------------------
(***************************************************************************)
(*                                map.py                                   *)
(***************************************************************************)

\* Bounds of the map model: the sides of the maps made, the number of
\* operations performed on a map, and the sizes of the argument sets.
TinySide == 1
SmallSide == 4
LargeSide == 32
MaxOps == 2
MaxSmallOps == 4

MapSizes ==
    { <<TinySide, TinySide>>, <<SmallSide, SmallSide>>,
      <<LargeSide, LargeSide>> }

\* The level numbers passed as arguments; 2 is a level no operation of the
\* model creates by number.
LevelArgs == {-1, 0, 1}

\* The coordinates passed to add_level_transition.
PointArgs == { <<1, 2>>, <<3, 0>> }

\* The integer seeds passed to the terrain operations.
TerrainSeeds == {1, 2}

\* A grid is a function over its cells in row-major order: cell y * w + x.
MapCells(w, h) == 0 .. (w * h - 1)
Grid(w, h, v) == [ c \in MapCells(w, h) |-> v ]
GridMin(g) == SetMin({ g[c] : c \in DOMAIN g })
GridMax(g) == SetMax({ g[c] : c \in DOMAIN g })

\* The data of a fresh level: grass everywhere, heights 0.
NewLevel(w, h) ==
    [tiles |-> Grid(w, h, "GRASS"), heightmap |-> Grid(w, h, 0)]

\* GameMap.__init__. Heights are kept in thousandths. self.tiles and
\* self._heightmap start as the very arrays stored for level 0: while
\* tiles_shared (heightmap_shared) holds, a write into one is a write into
\* the other.
GameMap(w, h) ==
    [width |-> w, height |-> h, current_z |-> 0,
     z_levels |-> (0 :> NewLevel(w, h)),
     level_transitions |-> (0 :> << >>),
     tiles |-> Grid(w, h, "GRASS"),
     heightmap |-> Grid(w, h, 0),
     tiles_shared |-> TRUE,
     heightmap_shared |-> TRUE]

\* add_z_level, for a level that does not exist yet.
add_z_level(gm, z) ==
    [gm EXCEPT !.z_levels = @ @@ (z :> NewLevel(gm.width, gm.height)),
               !.level_transitions = @ @@ (z :> << >>)]

\* mutant of change_level: the arrays of the level left are not stored
change_level_without_store(gm, z) ==
    [gm EXCEPT !.current_z = z,
               !.tiles = gm.z_levels[z].tiles,
               !.heightmap = gm.z_levels[z].heightmap,
               !.tiles_shared = FALSE,
               !.heightmap_shared = FALSE]

\* change_level, for a level that exists: the live arrays are copied into
\* the store of the level left, and copies of the stored arrays of the
\* level entered become the live arrays.
change_level(gm, z) ==
    LET stored == [gm.z_levels EXCEPT
                      ![gm.current_z] = [@ EXCEPT !.tiles = gm.tiles,
                                                  !.heightmap = gm.heightmap]]
    IN  [gm EXCEPT !.z_levels = stored,
                   !.current_z = z,
                   !.tiles = stored[z].tiles,
                   !.heightmap = stored[z].heightmap,
                   !.tiles_shared = FALSE,
                   !.heightmap_shared = FALSE]

\* level_transitions[a][b].append(p), creating the list when b is no key.
AppendTransition(lt, a, b, p) ==
    [lt EXCEPT ![a] = IF b \in DOMAIN @ THEN [@ EXCEPT ![b] = Append(@, p)]
                      ELSE @ @@ (b :> <<p>>)]

\* mutant of add_level_transition: the reciprocal entry is not made
add_level_transition_one_way(gm, from_z, to_z, x, y) ==
    [gm EXCEPT !.level_transitions =
        AppendTransition(@, from_z, to_z, <<x, y>>)]

\* add_level_transition, for two levels that exist.
add_level_transition(gm, from_z, to_z, x, y) ==
    [gm EXCEPT !.level_transitions =
        AppendTransition(AppendTransition(@, from_z, to_z, <<x, y>>),
                         to_z, from_z, <<x, y>>)]

\* The largest r with r * r <= n, for lo * lo <= n < (hi + 1) * (hi + 1).
RECURSIVE ISqrtIn(_, _, _)
ISqrtIn(n, lo, hi) ==
    IF lo = hi THEN lo
    ELSE LET mid == (lo + hi + 1) \div 2
         IN  IF mid * mid <= n THEN ISqrtIn(n, mid, hi)
             ELSE ISqrtIn(n, lo, mid - 1)

\* np.linspace(-0.5, 0.5, n)[i] * 2, in thousandths.
Linspace2(i, n) == IF n = 1 THEN -1000 ELSE ((2 * i - (n - 1)) * 1000) \div (n - 1)

\* d = 1.0 - sqrt(dx*dx + dy*dy): the island mask, negative in the corners.
IslandMask ==
    [ s \in MapSizes |->
        [ c \in MapCells(s[1], s[2]) |->
            LET dx == Linspace2(c % s[1], s[1])
                dy == Linspace2(c \div s[1], s[2])
            IN  1000 - ISqrtIn(dx * dx + dy * dy, 0, 1500) ] ]

\* The simplex noise of an integer seed, in [-1000, 1000]: a fixed function
\* of the seed and the cell.
NoiseGrid ==
    [ sd \in TerrainSeeds |->
        [ s \in MapSizes |->
            [ c \in MapCells(s[1], s[2]) |->
                LET x == c % s[1]
                    y == c \div s[1]
                IN  (((sd * 37 + x * 53 + y * 71 + x * y * 11) % 21) * 100)
                    - 1000 ] ] ]

\* _normalize_heightmap: only when max_height > min_height.
normalize_heightmap(h) ==
    LET min_height == GridMin(h)
        max_height == GridMax(h)
    IN  IF max_height > min_height
        THEN [ c \in DOMAIN h |->
                 ((h[c] - min_height) * 1000) \div (max_height - min_height) ]
        ELSE h

\* _apply_heightmap_to_terrain: the new self.tiles.
apply_heightmap_to_terrain(current_z, heightmap, tiles) ==
    [ c \in DOMAIN heightmap |->
        IF current_z >= 0
        THEN IF heightmap[c] < 300 THEN "WATER"
             ELSE IF heightmap[c] < 350 THEN "BEACH"
             ELSE IF heightmap[c] < 700 THEN "GRASS"
             ELSE IF heightmap[c] < 800 THEN "ROCK"
             ELSE "FOREST"
        ELSE IF tiles[c] \in {"CAVE_WALL", "CAVE_FLOOR"} THEN tiles[c]
             ELSE IF heightmap[c] < 300 THEN "CAVE_FLOOR"
             ELSE "CAVE_WALL" ]

\* generate_terrain(seed): the masked noise is stored for the level before
\* it is normalised; the new tiles are stored after.
generate_terrain(gm, seed) ==
    LET s == <<gm.width, gm.height>>
        raw == [ c \in MapCells(gm.width, gm.height) |->
                   (((NoiseGrid[seed][s][c] + 1000) \div 2) * IslandMask[s][c])
                       \div 1000 ]
        normal == normalize_heightmap(raw)
        terrain == apply_heightmap_to_terrain(gm.current_z, normal, gm.tiles)
    IN  [gm EXCEPT !.heightmap = normal,
                   !.tiles = terrain,
                   !.z_levels[gm.current_z] =
                       [@ EXCEPT !.heightmap = raw, !.tiles = terrain],
                   !.tiles_shared = FALSE,
                   !.heightmap_shared = FALSE]

\* The hills of add_terrain_features for a seed: _add_hill adds
\* (1 - dist_sq / radius_sq) * height inside the radius. The model places
\* two hills of radius 5 and height 0.3 at cells the seed fixes.
Hills ==
    [ sd \in TerrainSeeds |->
        [ s \in MapSizes |->
            [ c \in MapCells(s[1], s[2]) |->
                LET x == c % s[1]
                    y == c \div s[1]
                    cx1 == (sd * 5) % s[1]
                    cy1 == (sd * 3) % s[2]
                    cx2 == (sd * 7 + 2) % s[1]
                    cy2 == (sd + 1) % s[2]
                    d1 == (x - cx1) * (x - cx1) + (y - cy1) * (y - cy1)
                    d2 == (x - cx2) * (x - cx2) + (y - cy2) * (y - cy2)
                IN  (IF d1 < 25 THEN ((25 - d1) * 300) \div 25 ELSE 0)
                    + (IF d2 < 25 THEN ((25 - d2) * 300) \div 25 ELSE 0) ] ] ]

\* The net effect of _apply_erosion's droplets for a seed: a small loss of
\* height at cells the seed fixes, away from the first row and column.
Erosion ==
    [ sd \in TerrainSeeds |->
        [ s \in MapSizes |->
            [ c \in MapCells(s[1], s[2]) |->
                LET x == c % s[1]
                    y == c \div s[1]
                IN  IF x >= 1 /\ y >= 1
                    THEN 0 - (((x * 7 + y * 3 + sd) % 3) * 5)
                    ELSE 0 ] ] ]

\* _apply_erosion draws rng.randint(1, self.width - 2) from a numpy
\* generator, which raises ValueError unless 1 < self.width - 2.
erosion_raises(gm) == gm.width - 2 <= 1 \/ gm.height - 2 <= 1

\* add_terrain_features(seed) up to the erosion: the hills are added into
\* self._heightmap in place.
add_hills(gm, seed) ==
    LET s == <<gm.width, gm.height>>
        hilly == [ c \in DOMAIN gm.heightmap |->
                     gm.heightmap[c] + Hills[seed][s][c] ]
    IN  [gm EXCEPT !.heightmap = hilly,
                   !.z_levels[gm.current_z].heightmap =
                       IF gm.heightmap_shared THEN hilly ELSE @]

\* add_terrain_features(seed), for a map the erosion accepts. The stored
\* arrays of the level are not written, except through a shared heightmap.
add_terrain_features(gm, seed) ==
    LET s == <<gm.width, gm.height>>
        heightmap_before == gm.heightmap
        eroded == [ c \in DOMAIN gm.heightmap |->
                      gm.heightmap[c] + Hills[seed][s][c] + Erosion[seed][s][c] ]
        rescale == GridMax(eroded) <= GridMax(heightmap_before)
        scaled == IF rescale
                  THEN [ c \in DOMAIN eroded |->
                           heightmap_before[c]
                           + ((eroded[c] - heightmap_before[c]) * 3) \div 2 ]
                  ELSE eroded
        normal == normalize_heightmap(scaled)
    IN  [gm EXCEPT !.heightmap = normal,
                   !.tiles = apply_heightmap_to_terrain(gm.current_z, normal,
                                                        gm.tiles),
                   !.z_levels[gm.current_z].heightmap =
                       IF gm.heightmap_shared THEN eroded ELSE @,
                   !.tiles_shared = FALSE,
                   !.heightmap_shared =
                       /\ gm.heightmap_shared
                       /\ ~rescale
                       /\ GridMax(scaled) <= GridMin(scaled)]

\* The layouts passed to apply_cave_layout for a map w wide and h high: one
\* of the map's shape (walls on the border and on a diagonal pattern), and
\* one a column wider.
CaveLayouts(w, h) ==
    { [width |-> ww, height |-> h,
       walls |-> [ c \in MapCells(ww, h) |->
                     \/ (c % ww) \in {0, ww - 1}
                     \/ (c \div ww) \in {0, h - 1}
                     \/ ((c % ww) + (c \div ww)) % 3 = 0 ]] : ww \in {w, w + 1} }

\* apply_cave_layout, for a layout of the map's shape.
apply_cave_layout(gm, cave_layout) ==
    [gm EXCEPT !.tiles = [ c \in DOMAIN cave_layout.walls |->
                             IF cave_layout.walls[c] THEN "CAVE_WALL"
                             ELSE "CAVE_FLOOR" ],
               !.heightmap = [ c \in DOMAIN cave_layout.walls |->
                                 IF cave_layout.walls[c] THEN 800 ELSE 200 ],
               !.tiles_shared = FALSE,
               !.heightmap_shared = FALSE]

\* np.where(...) of generate_cave_entrance: the cells that are neither water
\* nor beach.
suitable(gm) == { c \in DOMAIN gm.tiles : gm.tiles[c] \notin {"WATER", "BEACH"} }

\* The idx-th element (from 0) of a set of cells in row-major order.
RECURSIVE Nth(_, _)
Nth(S, idx) == IF idx = 0 THEN SetMin(S) ELSE Nth(S \ {SetMin(S)}, idx - 1)

\* mutant of generate_cave_entrance: the tile is not marked
generate_cave_entrance_unmarked(gm, entrance) ==
    LET below == IF -1 \in DOMAIN gm.z_levels THEN gm ELSE add_z_level(gm, -1)
    IN  add_level_transition(below, gm.current_z, -1,
                             entrance % gm.width, entrance \div gm.width)

\* generate_cave_entrance with the cell chosen: the tile is written in
\* place, level -1 is made if missing, the transition is added.
generate_cave_entrance(gm, entrance) ==
    LET marked == [gm EXCEPT
                      !.tiles[entrance] = "CAVE_ENTRANCE",
                      !.z_levels[gm.current_z].tiles =
                          IF gm.tiles_shared
                          THEN [@ EXCEPT ![entrance] = "CAVE_ENTRANCE"]
                          ELSE @]
        below == IF -1 \in DOMAIN marked.z_levels THEN marked
                 ELSE add_z_level(marked, -1)
    IN  add_level_transition(below, gm.current_z, -1,
                             entrance % gm.width, entrance \div gm.width)

-----------------------------------------------------------------------------
(***************************************************************************)
(*                            structure.py                                 *)
(***************************************************************************)

\* random.Random(seed). A generator is its seed and the number of draws made
\* so far. A seeded generator yields a fixed function of the two; one made
\* with seed None is seeded from the clock, so each of its draws can be any
\* value of the range.
Random(seed) == [seed |-> seed, pos |-> 0]

Advance(r) == IF r.seed = None THEN r ELSE [r EXCEPT !.pos = @ + 1]

\* The draw number r.pos of the generator seeded r.seed, in 0 .. 11.
Raw(r) ==
    (r.seed[1] * 7 + r.pos * 5 + r.pos * r.pos * 3 + r.seed[1] * r.pos) % 12

\* rng.randint(a, b): the possible values, each with the generator after it.
randint(r, a, b) ==
    { [val |-> v, rng |-> Advance(r)] :
        v \in IF r.seed = None THEN a .. b ELSE { a + (Raw(r) % (b - a + 1)) } }

\* rng.random() < p for p = per_mille / 1000, strictly between 0 and 1.
random_below(r, per_mille) ==
    { [val |-> v, rng |-> Advance(r)] :
        v \in IF r.seed = None THEN BOOLEAN
              ELSE { (Raw(r) * 1000) \div 12 < per_mille } }

\* rng.uniform(0, 0.3), in thousandths.
uniform_0_300(r) ==
    { [val |-> v, rng |-> Advance(r)] :
        v \in IF r.seed = None THEN 0 .. 299 ELSE { Raw(r) * 25 } }

\* One rng.randint per pair <<a, b>> of `ranges`, in order.
RECURSIVE randints(_, _)
randints(r, ranges) ==
    IF ranges = << >> THEN { [val |-> << >>, rng |-> r] }
    ELSE UNION { { [val |-> <<d.val>> \o rest.val, rng |-> rest.rng] :
                     rest \in randints(d.rng, Tail(ranges)) } :
                 d \in randint(r, ranges[1][1], ranges[1][2]) }

\* BSPNode.__init__
BSPNode(x, y, width, height) ==
    [x |-> x, y |-> y, width |-> width, height |-> height,
     children |-> None, room |-> None]

\* mutant of split_refused: only the width is tested
split_refused_width_only(n, min_size) ==
    n.width < min_size * 2

\* BSPNode.split: the early return.
split_refused(n, min_size) ==
    n.width < min_size * 2 \/ n.height < min_size * 2

\* BSPNode.split: the direction. width / height >= 1.25 is compared in
\* integers as 4 * width >= 5 * height.
horizontal_choices(n, r) ==
    IF n.width > n.height /\ 4 * n.width >= 5 * n.height
    THEN { [val |-> TRUE, rng |-> r] }
    ELSE IF n.height > n.width /\ 4 * n.height >= 5 * n.width
    THEN { [val |-> FALSE, rng |-> r] }
    ELSE random_below(r, 500)

\* BSPNode.split: the two children for a direction and a split position.
split_children(n, horizontal, split_at) ==
    IF horizontal
    THEN << BSPNode(n.x, n.y, split_at, n.height),
            BSPNode(n.x + split_at, n.y, n.width - split_at, n.height) >>
    ELSE << BSPNode(n.x, n.y, n.width, split_at),
            BSPNode(n.x, n.y + split_at, n.width, n.height - split_at) >>

\* BSPNode.split(min_size, rng): the returned flag, the node afterwards and
\* the generator afterwards.
split(n, min_size, r) ==
    IF split_refused(n, min_size)
    THEN { [val |-> FALSE, node |-> n, rng |-> r] }
    ELSE UNION {
           { [val |-> TRUE,
              node |-> [n EXCEPT !.children = split_children(n, h.val, s.val)],
              rng |-> s.rng] :
               s \in randint(h.rng, min_size,
                             (IF h.val THEN n.width ELSE n.height) - min_size) } :
           h \in horizontal_choices(n, r) }

\* BSPNode.create_room(rng): the room (None for a node under 3 cells in a
\* dimension) and the generator afterwards.
create_room(n, r) ==
    IF n.width < 3 \/ n.height < 3
    THEN { [val |-> None, rng |-> r] }
    ELSE UNION {
           LET padding == p.val
               room_width == Max2(3, n.width - padding * 2)
               room_height == Max2(3, n.height - padding * 2)
           IN  IF padding > 1
               THEN { [val |-> << n.x + padding + o.val[1],
                                  n.y + padding + o.val[2],
                                  room_width, room_height >>,
                       rng |-> o.rng] :
                        o \in randints(p.rng, << <<0, padding \div 2>>,
                                                 <<0, padding \div 2>> >>) }
               ELSE { [val |-> << n.x + padding, n.y + padding,
                                  room_width, room_height >>,
                       rng |-> p.rng] } :
           p \in randint(r, 1, 2) }

\* split_chance, in thousandths.
split_chance(structure_type) ==
    IF structure_type = "HOUSE" THEN 600
    ELSE IF structure_type = "TEMPLE" THEN 700
    ELSE IF structure_type = "SHOP" THEN 750
    ELSE 800

\* max_iterations of the splitting loop.
max_iterations == 10

\* mutant of Remove: the split node stays in the list
RemoveNothing(list, e) == list

\* list.remove(e): the list without its first element equal to e.
RECURSIVE Remove(_, _)
Remove(list, e) ==
    IF list = << >> THEN << >>
    ELSE IF Head(list) = e THEN Tail(list)
    ELSE <<Head(list)>> \o Remove(Tail(list), e)

\* mutant of connect_rooms: the extra corridor is drawn from 3 rooms on
connect_rooms_from_three(rs, r) ==
    LET n == Len(rs)
        chain == [ i \in 1 .. (IF n > 1 THEN n - 1 ELSE 0) |-> <<i - 1, i>> ]
    IN  IF n > 2
        THEN { [val |-> IF d.val /\ \A i \in 1 .. Len(chain) : chain[i] # <<0, n - 1>>
                        THEN Append(chain, <<0, n - 1>>)
                        ELSE chain,
                rng |-> d.rng] : d \in random_below(r, 500) }
        ELSE { [val |-> chain, rng |-> r] }

\* The corridors: room i to room i + 1, and with more than 3 rooms and a
\* draw under 0.5 also the first room to the last.
connect_rooms(rs, r) ==
    LET n == Len(rs)
        chain == [ i \in 1 .. (IF n > 1 THEN n - 1 ELSE 0) |-> <<i - 1, i>> ]
    IN  IF n > 3
        THEN { [val |-> IF d.val /\ \A i \in 1 .. Len(chain) : chain[i] # <<0, n - 1>>
                        THEN Append(chain, <<0, n - 1>>)
                        ELSE chain,
                rng |-> d.rng] : d \in random_below(r, 500) }
        ELSE { [val |-> chain, rng |-> r] }

\* The entrance: on a random wall of a random room, or the middle of the
\* footprint when there is no room.
entrance_choices(rs, fp, r) ==
    IF rs = << >>
    THEN { [val |-> << fp.x + fp.width \div 2, fp.y + fp.height \div 2 >>,
            rng |-> r] }
    ELSE UNION {
           LET entrance_room == rs[c.val[1] + 1]
               rx == entrance_room[1]
               ry == entrance_room[2]
               rw == entrance_room[3]
               rh == entrance_room[4]
               wall == c.val[2]
           IN  { [val |-> IF wall = 0 THEN << rx + d.val, ry >>
                          ELSE IF wall = 1 THEN << rx + rw - 1, ry + d.val >>
                          ELSE IF wall = 2 THEN << rx + d.val, ry + rh - 1 >>
                          ELSE << rx, ry + d.val >>,
                  rng |-> d.rng] :
                   d \in randint(c.rng, 0,
                                 (IF wall \in {0, 2} THEN rw ELSE rh) - 1) } :
           c \in randints(r, << <<0, Len(rs) - 1>>, <<0, 3>> >>) }

\* generate_multi_floor_building: the footprint <<x, y, width, height>> of an
\* upper floor: for a house or a shop, with a draw under 0.7, both sides
\* are reduced by the same fraction (never below 3 * min_room_size) and the
\* floor is centred.
floor_footprint(c, r) ==
    LET full == [val |-> <<c.x, c.y, c.width, c.height>>]
    IN  IF c.structure_type \in {"HOUSE", "SHOP"}
        THEN UNION {
               IF d.val
               THEN { LET floor_width ==
                              Max2(c.min_room_size * 3,
                                   (c.width * (1000 - u.val)) \div 1000)
                          floor_height ==
                              Max2(c.min_room_size * 3,
                                   (c.height * (1000 - u.val)) \div 1000)
                      IN  [val |-> << c.x + (c.width - floor_width) \div 2,
                                      c.y + (c.height - floor_height) \div 2,
                                      floor_width, floor_height >>,
                           rng |-> u.rng] : u \in uniform_0_300(d.rng) }
               ELSE { [val |-> full.val, rng |-> d.rng] } :
               d \in random_below(r, 700) }
        ELSE { [val |-> full.val, rng |-> r] }

\* mutant of reciprocal_type: the way down is always a stair
reciprocal_type_stair(stair_type) == "STAIR_DOWN"

\* StairType.STAIR_DOWN if stair_type == StairType.STAIR_UP else LADDER_DOWN
reciprocal_type(stair_type) ==
    IF stair_type = "STAIR_UP" THEN "STAIR_DOWN" ELSE "LADDER_DOWN"

\* mutant of connection_choices: the offsets are drawn from 0, so a
\* connector can stand on a room's wall
connection_choices_on_wall(b, f, r) ==
    LET current_floor_rooms == b.floor_layouts[f].rooms
        next_floor_rooms == b.floor_layouts[f + 1].rooms
    IN  UNION { UNION {
          LET cr == current_floor_rooms[i.val[1] + 1]
              nr == next_floor_rooms[i.val[2] + 1]
              current_stair == << cr[1] + q.val[1], cr[2] + q.val[2] >>
              next_stair == << nr[1] + q.val[3], nr[2] + q.val[4] >>
              ladder == IF b.structure_type \in {"STORAGE", "WORKSHOP"}
                        THEN random_below(q.rng, 700)
                        ELSE { [val |-> FALSE, rng |-> q.rng] }
          IN  { LET stair_type == IF l.val THEN "LADDER_UP" ELSE "STAIR_UP"
                IN  [val |-> << [type |-> stair_type,
                                 position |-> current_stair,
                                 target_floor |-> f + 1,
                                 target_position |-> next_stair],
                                [type |-> reciprocal_type(stair_type),
                                 position |-> next_stair,
                                 target_floor |-> f,
                                 target_position |-> current_stair] >>,
                     rng |-> l.rng] : l \in ladder } :
          q \in LET cr == current_floor_rooms[i.val[1] + 1]
                    nr == next_floor_rooms[i.val[2] + 1]
                IN  randints(i.rng, << <<0, cr[3] - 2>>, <<0, cr[4] - 2>>,
                                       <<0, nr[3] - 2>>, <<0, nr[4] - 2>> >>) } :
          i \in randints(r, << <<0, Len(current_floor_rooms) - 1>>,
                               <<0, Len(next_floor_rooms) - 1>> >>) }

\* One round of _generate_vertical_connections for floor f: the pair of
\* records <<up, down>> it appends to floor f and to floor f + 1.
connection_choices(b, f, r) ==
    LET current_floor_rooms == b.floor_layouts[f].rooms
        next_floor_rooms == b.floor_layouts[f + 1].rooms
    IN  UNION { UNION {
          LET cr == current_floor_rooms[i.val[1] + 1]
              nr == next_floor_rooms[i.val[2] + 1]
              current_stair == << cr[1] + q.val[1], cr[2] + q.val[2] >>
              next_stair == << nr[1] + q.val[3], nr[2] + q.val[4] >>
              ladder == IF b.structure_type \in {"STORAGE", "WORKSHOP"}
                        THEN random_below(q.rng, 700)
                        ELSE { [val |-> FALSE, rng |-> q.rng] }
          IN  { LET stair_type == IF l.val THEN "LADDER_UP" ELSE "STAIR_UP"
                IN  [val |-> << [type |-> stair_type,
                                 position |-> current_stair,
                                 target_floor |-> f + 1,
                                 target_position |-> next_stair],
                                [type |-> reciprocal_type(stair_type),
                                 position |-> next_stair,
                                 target_floor |-> f,
                                 target_position |-> current_stair] >>,
                     rng |-> l.rng] : l \in ladder } :
          q \in LET cr == current_floor_rooms[i.val[1] + 1]
                    nr == next_floor_rooms[i.val[2] + 1]
                IN  randints(i.rng, << <<1, cr[3] - 2>>, <<1, cr[4] - 2>>,
                                       <<1, nr[3] - 2>>, <<1, nr[4] - 2>> >>) } :
          i \in randints(r, << <<0, Len(current_floor_rooms) - 1>>,
                               <<0, Len(next_floor_rooms) - 1>> >>) }

\* vertical_connections[f].append(c), creating the list when f is no key.
AppendAt(d, f, c) ==
    IF f \in DOMAIN d THEN [d EXCEPT ![f] = Append(@, c)]
    ELSE d @@ (f :> <<c>>)

\* `floors` after `if floors < 1: floors = 1`.
Floors(c) == IF c.floors < 1 THEN 1 ELSE c.floors

\* Bounds of the building model: the origin of every footprint, the sides
\* of the footprints of generate_building and those of
\* generate_multi_floor_building, and the number of floors asked for.
BuildX == 2
BuildY == 1
MaxSide == 6
MaxMultiSide == 4
MaxFloors == 2
WideSide == 12
TallSide == 12

\* The calls the model makes: generate_building with min_room_size 3 (the
\* default, and the value generate_buildings passes) and 4; and
\* generate_multi_floor_building, for the types whose upper floors keep the
\* footprint (also on a footprint of 2 by 2 cells) and for a house, whose
\* upper floors can shrink to a side of 3 * min_room_size: with
\* min_room_size 1, and with the default 3 and an integer seed; and
\* generate_building on a wide footprint, which holds more than 3 rooms, and
\* with min_room_size 1 and an integer seed on a tall footprint, whose
\* splitting is cut short by max_iterations.
BuildCalls ==
    { [x |-> BuildX, y |-> BuildY, width |-> w, height |-> h, floors |-> 1,
       min_room_size |-> m, structure_type |-> "HOUSE", seed |-> sd,
       multi |-> FALSE] :
        w \in 3 .. MaxSide, h \in 3 .. MaxSide, m \in {3, 4},
        sd \in {None, <<1>>} }
    \cup
    { [x |-> BuildX, y |-> BuildY, width |-> w, height |-> h, floors |-> f,
       min_room_size |-> 3, structure_type |-> t, seed |-> sd,
       multi |-> TRUE] :
        w \in 3 .. MaxMultiSide, h \in 3 .. MaxMultiSide,
        f \in 0 .. MaxFloors, t \in {"TEMPLE", "WORKSHOP"},
        sd \in {None, <<1>>} }
    \cup
    { [x |-> BuildX, y |-> BuildY, width |-> 3, height |-> 3, floors |-> f,
       min_room_size |-> 1, structure_type |-> "HOUSE", seed |-> sd,
       multi |-> TRUE] :
        f \in 0 .. MaxFloors, sd \in {None, <<1>>} }
    \cup
    { [x |-> BuildX, y |-> BuildY, width |-> 2, height |-> 2, floors |-> f,
       min_room_size |-> 3, structure_type |-> "TEMPLE", seed |-> sd,
       multi |-> TRUE] :
        f \in 1 .. MaxFloors, sd \in {None, <<1>>} }
    \cup
    { [x |-> BuildX, y |-> BuildY, width |-> w, height |-> h, floors |-> f,
       min_room_size |-> 3, structure_type |-> "HOUSE", seed |-> sd,
       multi |-> TRUE] :
        w \in 3 .. MaxMultiSide, h \in 3 .. MaxMultiSide,
        f \in 2 .. MaxFloors, sd \in { <<1>>, <<2>> } }
    \cup
    { [x |-> BuildX, y |-> BuildY, width |-> WideSide, height |-> 6,
       floors |-> 1, min_room_size |-> 3, structure_type |-> "HOUSE",
       seed |-> None, multi |-> FALSE] }
    \cup
    { [x |-> BuildX, y |-> BuildY, width |-> 3, height |-> TallSide,
       floors |-> 1, min_room_size |-> 1, structure_type |-> "STORAGE",
       seed |-> <<3>>, multi |-> FALSE] }

\* The state on entry to the splitting loop of a layout with footprint fp
\* and generator r: the first round has begun.
InitBuild ==
    /\ call \in BuildCalls
    /\ bpc = "split"
    /\ floor = 0
    /\ rng = Random(call.seed)
    /\ mrng = IF call.multi THEN Random(call.seed) ELSE None
    /\ root = BSPNode(call.x, call.y, call.width, call.height)
    /\ leaf_nodes = <<root>>
    /\ nodes_to_process = <<root>>
    /\ new_nodes = << >>
    /\ node_idx = 1
    /\ bsp_iteration = 1
    /\ node = None
    /\ rooms = << >>
    /\ leaf_idx = 0
    /\ building = None
    /\ IdleCave
    /\ IdleQuest
    /\ IdleInv
    /\ IdleMap
    /\ IdleGen

\* One round of `for node in nodes_to_process`; after the last node of the
\* list the while loop either begins its next round or ends.
SplitNode ==
    /\ bpc = "split"
    /\ LET n == nodes_to_process[node_idx]
       IN  \E d \in random_below(rng, split_chance(call.structure_type)) :
           \E s \in IF d.val THEN split(n, call.min_room_size, d.rng)
                    ELSE { [val |-> FALSE, node |-> n, rng |-> d.rng] } :
             LET leaves == IF s.val
                           THEN Remove(leaf_nodes, n) \o s.node.children
                           ELSE leaf_nodes
                 news == IF s.val THEN new_nodes \o s.node.children
                         ELSE new_nodes
             IN  /\ node' = s.node
                 /\ rng' = s.rng
                 /\ leaf_nodes' = leaves
                 /\ IF node_idx < Len(nodes_to_process)
                    THEN /\ node_idx' = node_idx + 1
                         /\ new_nodes' = news
                         /\ UNCHANGED <<nodes_to_process, bsp_iteration, bpc,
                                        leaf_idx>>
                    ELSE IF news # << >> /\ bsp_iteration < max_iterations
                    THEN /\ nodes_to_process' = news
                         /\ new_nodes' = << >>
                         /\ node_idx' = 1
                         /\ bsp_iteration' = bsp_iteration + 1
                         /\ UNCHANGED <<bpc, leaf_idx>>
                    ELSE /\ nodes_to_process' = news
                         /\ new_nodes' = news
                         /\ node_idx' = 0
                         /\ bpc' = "rooms"
                         /\ leaf_idx' = 1
                         /\ UNCHANGED bsp_iteration
    /\ UNCHANGED <<call, floor, mrng, root, rooms, building>>
    /\ UNCHANGED <<caveVars, mapVars, genVars, questVars, invVars>>

\* One round of `for node in leaf_nodes`: node.create_room(rng).
CreateRoom ==
    /\ bpc = "rooms"
    /\ \E c \in create_room(leaf_nodes[leaf_idx], rng) :
         /\ leaf_nodes' = [leaf_nodes EXCEPT ![leaf_idx].room = c.val]
         /\ node' = [leaf_nodes[leaf_idx] EXCEPT !.room = c.val]
         /\ rooms' = IF c.val # None THEN Append(rooms, c.val) ELSE rooms
         /\ rng' = c.rng
    /\ IF leaf_idx < Len(leaf_nodes)
       THEN leaf_idx' = leaf_idx + 1 /\ bpc' = "rooms"
       ELSE leaf_idx' = 0 /\ bpc' = "connect"
    /\ UNCHANGED <<call, floor, mrng, root, nodes_to_process, new_nodes,
                   node_idx, bsp_iteration, building>>
    /\ UNCHANGED <<caveVars, mapVars, genVars, questVars, invVars>>

\* The rest of a layout: the corridors and, on the ground floor, the
\* entrance. generate_building returns its dictionary, to which
\* generate_multi_floor_building adds "floors" and "floor_layouts";
\* _generate_floor_layout's result becomes floor_layouts[floor].
ConnectRooms ==
    /\ bpc = "connect"
    /\ \E c \in connect_rooms(rooms, rng) :
         IF floor = 0
         THEN \E e \in entrance_choices(rooms, root, c.rng) :
                LET b == [footprint |-> <<call.x, call.y, call.width, call.height>>,
                          rooms |-> rooms,
                          corridors |-> c.val,
                          entrance |-> e.val,
                          structure_type |-> call.structure_type,
                          floors |-> 1]
                    ground == [rooms |-> rooms, corridors |-> c.val]
                IN  /\ rng' = e.rng
                    /\ IF ~call.multi
                       THEN building' = b /\ bpc' = "done"
                       ELSE IF Floors(call) > 1
                       THEN /\ building' =
                                  [b EXCEPT !.floors = Floors(call)] @@
                                  [floor_layouts |-> (0 :> ground)]
                            /\ bpc' = "floor"
                       ELSE /\ building' =
                                  [b EXCEPT !.floors = Floors(call)] @@
                                  [floor_layouts |-> (0 :> ground),
                                   vertical_connections |-> << >>]
                            /\ bpc' = "done"
                    /\ floor' = floor
         ELSE /\ rng' = c.rng
              /\ building' =
                   [building EXCEPT !.floor_layouts =
                       @ @@ (floor :> [rooms |-> rooms,
                                       corridors |-> c.val,
                                       footprint |-> <<root.x, root.y,
                                                       root.width, root.height>>])]
              /\ IF floor + 1 < Floors(call)
                 THEN bpc' = "floor" /\ floor' = floor
                 ELSE bpc' = "vertical" /\ floor' = 0
    /\ UNCHANGED <<call, mrng, root, leaf_nodes, nodes_to_process, new_nodes,
                   node_idx, bsp_iteration, node, rooms, leaf_idx>>
    /\ UNCHANGED <<caveVars, mapVars, genVars, questVars, invVars>>

\* One round of `for floor in range(1, floors)` up to the splitting loop of
\* _generate_floor_layout.
BeginFloor ==
    /\ bpc = "floor"
    /\ LET f == floor + 1
           floor_seed == IF call.seed = None THEN None
                         ELSE << call.seed[1] + f * 1000 >>
       IN  \E fp \in floor_footprint(call, mrng) :
             /\ floor' = f
             /\ mrng' = fp.rng
             /\ rng' = Random(floor_seed)
             /\ root' = BSPNode(fp.val[1], fp.val[2], fp.val[3], fp.val[4])
    /\ leaf_nodes' = <<root'>>
    /\ nodes_to_process' = <<root'>>
    /\ new_nodes' = << >>
    /\ node_idx' = 1
    /\ bsp_iteration' = 1
    /\ node' = None
    /\ rooms' = << >>
    /\ leaf_idx' = 0
    /\ bpc' = "split"
    /\ UNCHANGED <<call, building>>
    /\ UNCHANGED <<caveVars, mapVars, genVars, questVars, invVars>>

\* One round of `for floor in range(floors - 1)` of
\* _generate_vertical_connections; the dictionary is stored in the building
\* as it grows and is complete when the loop ends.
ConnectFloors ==
    /\ bpc = "vertical"
    /\ LET vc == IF "vertical_connections" \in DOMAIN building
                 THEN building.vertical_connections ELSE << >>
       IN  IF \/ building.floor_layouts[floor].rooms = << >>
              \/ building.floor_layouts[floor + 1].rooms = << >>
           THEN /\ building' =
                     [ k \in DOMAIN building \cup {"vertical_connections"} |->
                         IF k = "vertical_connections" THEN vc ELSE building[k] ]
                /\ mrng' = mrng
           ELSE \E c \in connection_choices(building, floor, mrng) :
                  /\ building' =
                       [ k \in DOMAIN building \cup {"vertical_connections"} |->
                           IF k = "vertical_connections"
                           THEN AppendAt(AppendAt(vc, floor, c.val[1]),
                                         floor + 1, c.val[2])
                           ELSE building[k] ]
                  /\ mrng' = c.rng
    /\ IF floor + 1 < building.floors - 1
       THEN floor' = floor + 1 /\ bpc' = "vertical"
       ELSE floor' = 0 /\ bpc' = "done"
    /\ UNCHANGED <<call, rng, root, leaf_nodes, nodes_to_process, new_nodes,
                   node_idx, bsp_iteration, node, rooms, leaf_idx>>
    /\ UNCHANGED <<caveVars, mapVars, genVars, questVars, invVars>>

NextBuild ==
    SplitNode \/ CreateRoom \/ ConnectRooms \/ BeginFloor \/ ConnectFloors

SpecBuild == InitBuild /\ [][NextBuild]_vars

-----------------------------------------------------------------------------
(***************************************************************************)
(*        structure.py: placing buildings on a GameMap (with map.py)       *)
(***************************************************************************)

\* max_attempts, as generate_buildings passes it.
max_attempts == 100

\* The default of generate_buildings' min_size, which add_buildings_to_map
\* leaves in place.
default_min_size == 8

\* list(StructureType)
StructureTypeList == <<"HOUSE", "SHOP", "TEMPLE", "WORKSHOP", "STORAGE">>

\* is_buildable: the footprint must end before the last column and row, and
\* the tiles stored for the current level must hold no water and no rock
\* inside it.
is_buildable(gm, x, y, width, height) ==
    IF x < 0 \/ y < 0 \/ x + width >= gm.width \/ y + height >= gm.height
    THEN FALSE
    ELSE LET terrain == gm.z_levels[gm.current_z].tiles
         IN  \A yy \in y .. (y + height - 1) :
                 \A xx \in x .. (x + width - 1) :
                     terrain[yy * gm.width + xx] \notin {"WATER", "ROCK"}

\* The generator r after n more draws.
AdvanceBy(r, n) == IF r.seed = None THEN r ELSE [r EXCEPT !.pos = @ + n]

\* The area <<x, y, width, height>> a seeded generator samples in attempt k
\* (from 0) of find_buildable_area: four draws per attempt.
sampled_area(gm, min_width, min_height, r, k) ==
    LET d == CHOOSE d \in randints(AdvanceBy(r, 4 * k),
                 << <<min_width, Min2(min_width + 10, gm.width \div 4)>>,
                    <<min_height, Min2(min_height + 10, gm.height \div 4)>> >>) :
                 TRUE
        p == CHOOSE p \in randints(d.rng,
                 << <<0, gm.width - d.val[1] - 1>>,
                    <<0, gm.height - d.val[2] - 1>> >>) : TRUE
    IN  <<p.val[1], p.val[2], d.val[1], d.val[2]>>

\* find_buildable_area with a seeded generator: the first buildable area
\* sampled within max_attempts attempts, or None when there is none, or the
\* ValueError of a randint over an empty range.
seeded_search(gm, min_width, min_height, r) ==
    IF \/ Min2(min_width + 10, gm.width \div 4) < min_width
       \/ Min2(min_height + 10, gm.height \div 4) < min_height
    THEN [kind |-> "raise", val |-> None, rng |-> r]
    ELSE LET good == { k \in 0 .. (max_attempts - 1) :
                         LET a == sampled_area(gm, min_width, min_height, r, k)
                         IN  is_buildable(gm, a[1], a[2], a[3], a[4]) }
         IN  IF good = {}
             THEN [kind |-> "none", val |-> None,
                   rng |-> AdvanceBy(r, 4 * max_attempts)]
             ELSE [kind |-> "area",
                   val |-> sampled_area(gm, min_width, min_height, r,
                                        SetMin(good)),
                   rng |-> AdvanceBy(r, 4 * (SetMin(good) + 1))]

\* find_buildable_area: with an unseeded generator any sampled area that is
\* buildable can be returned, and None when some sampled area is not.
find_buildable_area(gm, min_width, min_height, r) ==
    IF r.seed # None
    THEN { seeded_search(gm, min_width, min_height, r) }
    ELSE LET wmax == Min2(min_width + 10, gm.width \div 4)
             hmax == Min2(min_height + 10, gm.height \div 4)
             areas == { a \in (0 .. gm.width) \X (0 .. gm.height)
                              \X (min_width .. wmax) \X (min_height .. hmax) :
                          /\ a[1] <= gm.width - a[3] - 1
                          /\ a[2] <= gm.height - a[4] - 1 }
         IN  IF wmax < min_width \/ hmax < min_height
             THEN { [kind |-> "raise", val |-> None, rng |-> r] }
             ELSE { [kind |-> "area", val |-> a, rng |-> r] :
                      a \in { b \in areas :
                                is_buildable(gm, b[1], b[2], b[3], b[4]) } }
                  \cup
                  { [kind |-> "none", val |-> None, rng |-> r] :
                      a \in { b \in areas :
                                ~is_buildable(gm, b[1], b[2], b[3], b[4]) } }

\* `seed + i if seed else None`: None for no seed and for the seed 0.
building_seed(seed, i) ==
    IF seed = None THEN None
    ELSE IF seed[1] = 0 THEN None
    ELSE << seed[1] + i >>

\* mutant of WithList: the list is reset even when the key is there
WithListReset(level, key) ==
    [ k \in DOMAIN level \cup {key} |-> IF k = key THEN << >> ELSE level[k] ]

\* z_levels[z]['buildings' / 'entrances'] = [] when the key is missing.
WithList(level, key) ==
    IF key \in DOMAIN level THEN level ELSE level @@ (key :> << >>)

\* The transitions _add_multi_floor_building_to_map adds for the list
\* `connections` of floor f: one add_level_transition per record, at the
\* record's own position.
RECURSIVE add_connections(_, _, _, _)
add_connections(gm, base_z, f, connections) ==
    IF connections = << >> THEN gm
    ELSE LET connection == Head(connections)
         IN  add_connections(
                 add_level_transition(gm, base_z + f,
                                      base_z + connection.target_floor,
                                      connection.position[1],
                                      connection.position[2]),
                 base_z, f, Tail(connections))

\* `for floor, connections in building["vertical_connections"].items()`,
\* from floor f on; the keys were inserted in rising order.
RECURSIVE add_floor_connections(_, _, _, _)
add_floor_connections(gm, base_z, b, f) ==
    IF f >= b.floors THEN gm
    ELSE add_floor_connections(
             IF f \in DOMAIN b.vertical_connections
             THEN add_connections(gm, base_z, f, b.vertical_connections[f])
             ELSE gm,
             base_z, b, f + 1)

\* `for floor in range(1, floors)` of _add_multi_floor_building_to_map, from
\* floor f on: the level is made if missing and the building is listed on
\* it.
RECURSIVE add_floor_levels(_, _, _, _)
add_floor_levels(gm, base_z, b, f) ==
    IF f >= b.floors THEN gm
    ELSE LET target_z == base_z + f
             made == IF target_z \in DOMAIN gm.z_levels THEN gm
                     ELSE add_z_level(gm, target_z)
         IN  add_floor_levels(
                 [made EXCEPT !.z_levels[target_z] =
                     [WithList(@, "buildings") EXCEPT
                         !.buildings = Append(@, b)]],
                 base_z, b, f + 1)

\* _add_multi_floor_building_to_map
add_multi_floor_building_to_map(gm, b) ==
    IF b.floors <= 1 THEN gm
    ELSE LET levels == add_floor_levels(gm, gm.current_z, b, 1)
         IN  IF "vertical_connections" \in DOMAIN b
             THEN add_floor_connections(levels, gm.current_z, b, 0)
             ELSE levels

\* `for building in buildings` of add_buildings_to_map.
RECURSIVE store_buildings(_, _)
store_buildings(gm, bs) ==
    IF bs = << >> THEN gm
    ELSE LET b == Head(bs)
             listed == [gm EXCEPT !.z_levels[gm.current_z] =
                          [@ EXCEPT !.buildings = Append(@, b),
                                    !.entrances = Append(@, b.entrance)]]
         IN  store_buildings(add_multi_floor_building_to_map(listed, b),
                             Tail(bs))

\* add_buildings_to_map after generate_buildings has returned.
add_buildings_to_map(gm, bs) ==
    store_buildings(
        [gm EXCEPT !.z_levels[gm.current_z] =
            WithList(WithList(@, "buildings"), "entrances")],
        bs)

\* Bounds of the placement model: the number of buildings asked for.
MaxCount == 2

\* The integer seeds passed to generate_buildings and add_buildings_to_map
\* on a map that has been operated on.
GenSeeds == { <<1>>, <<2>> }

\* The calls made on a map: generate_buildings(game_map, count, min_size,
\* seed), and add_buildings_to_map(game_map, count, seed), which leaves
\* min_size at its default.
GenCalls ==
    { [count |-> n, min_size |-> m, seed |-> sd, register |-> FALSE] :
        n \in 1 .. MaxCount, m \in {1, 3, default_min_size}, sd \in GenSeeds }
    \cup
    { [count |-> n, min_size |-> default_min_size, seed |-> sd,
       register |-> TRUE] :
        n \in 1 .. MaxCount, sd \in GenSeeds }

\* GameMap(width, height)
InitMap ==
    /\ game_map \in { GameMap(s[1], s[2]) : s \in MapSizes }
    /\ error = NoError
    /\ ops = 0
    /\ last_op = Called("GameMap", <<game_map.width, game_map.height>>, None)
    /\ before = game_map
    /\ kept = << >>
    /\ IdleCave
    /\ IdleQuest
    /\ IdleInv
    /\ IdleBuild
    /\ IdleGen

\* An operation on the map can begin: the large map is operated on MaxOps
\* times, the smaller ones MaxSmallOps times.
MapReady ==
    /\ gpc = "idle"
    /\ ops < (IF game_map.width = LargeSide THEN MaxOps ELSE MaxSmallOps)

\* The outcome of a call: the map after it, the exception raised (or
\* NoError) and the value returned.
Raised(gm) == [map |-> gm, error |-> "ValueError", result |-> None]
Returned(gm, result) == [map |-> gm, error |-> NoError, result |-> result]

\* mutant of add_z_level_call: an existing level is made anew
add_z_level_call_reset(gm, z) ==
    Returned([gm EXCEPT !.z_levels =
                 [ l \in DOMAIN @ \cup {z} |->
                     IF l = z THEN NewLevel(gm.width, gm.height) ELSE @[l] ],
                        !.level_transitions =
                 [ l \in DOMAIN @ \cup {z} |->
                     IF l = z THEN << >> ELSE @[l] ]],
             None)

\* game_map.add_z_level(z)
add_z_level_call(gm, z) ==
    IF z \in DOMAIN gm.z_levels THEN Raised(gm)
    ELSE Returned(add_z_level(gm, z), None)

\* game_map.change_level(z)
change_level_call(gm, z) ==
    IF z \notin DOMAIN gm.z_levels THEN Raised(gm)
    ELSE Returned(change_level(gm, z), None)

\* mutant of add_level_transition_call: only the source level is looked up
add_level_transition_call_source_only(gm, from_z, to_z, x, y) ==
    IF from_z \notin DOMAIN gm.z_levels THEN Raised(gm)
    ELSE IF to_z \notin DOMAIN gm.z_levels
    THEN Returned(add_level_transition_one_way(gm, from_z, to_z, x, y), None)
    ELSE Returned(add_level_transition(gm, from_z, to_z, x, y), None)

\* game_map.add_level_transition(from_z, to_z, x, y)
add_level_transition_call(gm, from_z, to_z, x, y) ==
    IF from_z \notin DOMAIN gm.z_levels \/ to_z \notin DOMAIN gm.z_levels
    THEN Raised(gm)
    ELSE Returned(add_level_transition(gm, from_z, to_z, x, y), None)

\* game_map.get_level_transitions(z): a copy of the level's entry.
get_level_transitions_call(gm, z) ==
    IF z \notin DOMAIN gm.z_levels THEN Raised(gm)
    ELSE Returned(gm, gm.level_transitions[z])

\* game_map.add_terrain_features(seed): the exception of the erosion leaves
\* the hills in the heightmap.
add_terrain_features_call(gm, seed) ==
    IF erosion_raises(gm) THEN Raised(add_hills(gm, seed))
    ELSE Returned(add_terrain_features(gm, seed), None)

\* mutant of apply_cave_layout_call: only the heights are compared
apply_cave_layout_call_height_only(gm, cave_layout) ==
    IF cave_layout.height # gm.height THEN Raised(gm)
    ELSE Returned(apply_cave_layout(gm, cave_layout), None)

\* game_map.apply_cave_layout(cave_layout)
apply_cave_layout_call(gm, cave_layout) ==
    IF <<cave_layout.height, cave_layout.width>> # <<gm.height, gm.width>>
    THEN Raised(gm)
    ELSE Returned(apply_cave_layout(gm, cave_layout), None)

\* rng.randint(len(suitable[0])) of a numpy generator with an integer seed:
\* a fixed function of the seed and the length.
entrance_index(seed, n) == (seed * 5 + 3) % n

\* mutant of generate_cave_entrance_call: the underground level is made
\* before the suitable cells are looked for
generate_cave_entrance_call_level_first(gm, seed) ==
    LET cells == suitable(gm)
        below == IF -1 \in DOMAIN gm.z_levels THEN gm ELSE add_z_level(gm, -1)
    IN  IF cells = {} THEN Raised(below)
        ELSE LET entrance == Nth(cells, entrance_index(seed, Cardinality(cells)))
             IN  Returned(generate_cave_entrance(gm, entrance),
                          <<entrance % gm.width, entrance \div gm.width>>)

\* game_map.generate_cave_entrance(seed)
generate_cave_entrance_call(gm, seed) ==
    LET cells == suitable(gm)
    IN  IF cells = {} THEN Raised(gm)
        ELSE LET entrance == Nth(cells, entrance_index(seed, Cardinality(cells)))
             IN  Returned(generate_cave_entrance(gm, entrance),
                          <<entrance % gm.width, entrance \div gm.width>>)

\* An operation of the map is called and ends as `out` says.
MapCall(name, args, out) ==
    /\ game_map' = out.map
    /\ error' = out.error
    /\ last_op' = Called(name, args, out.result)
    /\ before' = game_map
    /\ ops' = ops + 1
    /\ UNCHANGED <<caveVars, buildVars, genVars, questVars, invVars>>

AddZLevel ==
    /\ MapReady
    /\ \E z \in LevelArgs :
         MapCall("add_z_level", <<z>>, add_z_level_call(game_map, z))
    /\ UNCHANGED kept

\* change_level; `kept` records the terrain grid of the level left.
ChangeLevel ==
    /\ MapReady
    /\ \E z \in LevelArgs :
         MapCall("change_level", <<z>>, change_level_call(game_map, z))
    /\ kept' = IF error' = NoError
               THEN [ l \in DOMAIN kept \cup {game_map.current_z} |->
                        IF l = game_map.current_z THEN game_map.tiles
                        ELSE kept[l] ]
               ELSE kept

AddLevelTransition ==
    /\ MapReady
    /\ \E from_z \in LevelArgs, to_z \in LevelArgs, p \in PointArgs :
         MapCall("add_level_transition", <<from_z, to_z, p[1], p[2]>>,
                 add_level_transition_call(game_map, from_z, to_z, p[1], p[2]))
    /\ UNCHANGED kept

GetLevelTransitions ==
    /\ MapReady
    /\ \E z \in LevelArgs :
         MapCall("get_level_transitions", <<z>>,
                 get_level_transitions_call(game_map, z))
    /\ UNCHANGED kept

GenerateTerrain ==
    /\ MapReady
    /\ \E seed \in TerrainSeeds :
         MapCall("generate_terrain", <<seed>>,
                 Returned(generate_terrain(game_map, seed), None))
    /\ UNCHANGED kept

AddTerrainFeatures ==
    /\ MapReady
    /\ \E seed \in TerrainSeeds :
         MapCall("add_terrain_features", <<seed>>,
                 add_terrain_features_call(game_map, seed))
    /\ UNCHANGED kept

ApplyCaveLayout ==
    /\ MapReady
    /\ \E cave_layout \in CaveLayouts(game_map.width, game_map.height) :
         MapCall("apply_cave_layout",
                 <<cave_layout.height, cave_layout.width>>,
                 apply_cave_layout_call(game_map, cave_layout))
    /\ UNCHANGED kept

GenerateCaveEntrance ==
    /\ MapReady
    /\ \E seed \in TerrainSeeds :
         MapCall("generate_cave_entrance", <<seed>>,
                 generate_cave_entrance_call(game_map, seed))
    /\ UNCHANGED kept

\* generate_buildings up to its loop: the generator is made and
\* multi_floor_count drawn.
GenerateBuildings ==
    /\ MapReady
    /\ \E c \in GenCalls :
       \E d \in randint(Random(c.seed), 0, 1) :
         /\ gen_call' = c
         /\ grng' = d.rng
         /\ multi_floor_count' = Min2(c.count \div 2 + d.val, c.count)
    /\ gen_i' = 0
    /\ buildings' = << >>
    /\ gpc' = "place"
    /\ error' = NoError
    /\ ops' = ops + 1
    /\ last_op' = Called("generate_buildings", << >>, None)
    /\ before' = game_map
    /\ UNCHANGED <<game_map, kept, run, first_buildings>>
    /\ UNCHANGED <<caveVars, buildVars, questVars, invVars>>

\* The state of the loop of generate_buildings after round gen_i.
NextRound(i) == IF i + 1 < gen_call.count THEN "place" ELSE "returned"

\* One round of `for i in range(count)` up to the call that generates the
\* building: the search for an area (which can raise, or find none, and
\* then the round ends), the type, the number of floors.
FindBuildableArea ==
    /\ gpc = "place"
    /\ \E a \in find_buildable_area(game_map, gen_call.min_size,
                                    gen_call.min_size, grng) :
         IF a.kind = "raise"
         THEN /\ error' = "ValueError"
              /\ gpc' = "raised"
              /\ grng' = a.rng
              /\ UNCHANGED <<gen_i, buildVars>>
         ELSE IF a.kind = "none"
         THEN /\ gpc' = NextRound(gen_i)
              /\ gen_i' = gen_i + 1
              /\ grng' = a.rng
              /\ UNCHANGED <<error, buildVars>>
         ELSE \E t \in randint(a.rng, 0, 4) :
              \E f \in IF gen_i < multi_floor_count THEN randint(t.rng, 2, 3)
                       ELSE { [val |-> 1, rng |-> t.rng] } :
                /\ call' = [x |-> a.val[1], y |-> a.val[2],
                            width |-> a.val[3], height |-> a.val[4],
                            floors |-> f.val, min_room_size |-> 3,
                            structure_type |-> StructureTypeList[t.val + 1],
                            seed |-> building_seed(gen_call.seed, gen_i),
                            multi |-> gen_i < multi_floor_count]
                /\ grng' = f.rng
                /\ gpc' = "build"
                /\ bpc' = "split"
                /\ floor' = 0
                /\ rng' = Random(call'.seed)
                /\ mrng' = IF call'.multi THEN Random(call'.seed) ELSE None
                /\ root' = BSPNode(call'.x, call'.y, call'.width, call'.height)
                /\ leaf_nodes' = <<root'>>
                /\ nodes_to_process' = <<root'>>
                /\ new_nodes' = << >>
                /\ node_idx' = 1
                /\ bsp_iteration' = 1
                /\ node' = None
                /\ rooms' = << >>
                /\ leaf_idx' = 0
                /\ building' = None
                /\ UNCHANGED <<error, gen_i>>
    /\ UNCHANGED <<game_map, ops, last_op, before, kept>>
    /\ UNCHANGED <<gen_call, multi_floor_count, buildings, run,
                   first_buildings>>
    /\ UNCHANGED <<caveVars, questVars, invVars>>

\* buildings.append(building), once the building has been generated.
AppendBuilding ==
    /\ gpc = "build"
    /\ bpc = "done"
    /\ buildings' = Append(buildings, building)
    /\ gpc' = NextRound(gen_i)
    /\ gen_i' = gen_i + 1
    /\ call' = None
    /\ bpc' = "idle"
    /\ floor' = 0
    /\ rng' = None
    /\ mrng' = None
    /\ root' = None
    /\ leaf_nodes' = << >>
    /\ nodes_to_process' = << >>
    /\ new_nodes' = << >>
    /\ node_idx' = 0
    /\ bsp_iteration' = 0
    /\ node' = None
    /\ rooms' = << >>
    /\ leaf_idx' = 0
    /\ building' = None
    /\ UNCHANGED <<gen_call, multi_floor_count, grng, run, first_buildings>>
    /\ UNCHANGED <<caveVars, mapVars, questVars, invVars>>

\* add_buildings_to_map after generate_buildings has returned its list.
StoreBuildings ==
    /\ gpc = "returned"
    /\ gen_call.register
    /\ game_map' = add_buildings_to_map(game_map, buildings)
    /\ gpc' = "stored"
    /\ UNCHANGED <<error, ops, last_op, before, kept>>
    /\ UNCHANGED <<gen_call, gen_i, multi_floor_count, buildings, grng, run,
                   first_buildings>>
    /\ UNCHANGED <<caveVars, buildVars, questVars, invVars>>

\* The call returns, or its exception reaches the caller.
Return ==
    /\ run = 0
    /\ \/ gpc = "returned" /\ ~gen_call.register
       \/ gpc = "stored"
       \/ gpc = "raised"
    /\ gen_call' = None
    /\ gpc' = "idle"
    /\ gen_i' = 0
    /\ multi_floor_count' = 0
    /\ buildings' = << >>
    /\ grng' = None
    /\ UNCHANGED <<run, first_buildings>>
    /\ UNCHANGED <<caveVars, buildVars, mapVars, questVars, invVars>>

NextMap ==
    \/ AddZLevel \/ ChangeLevel \/ AddLevelTransition \/ GetLevelTransitions
    \/ GenerateTerrain \/ AddTerrainFeatures \/ ApplyCaveLayout
    \/ GenerateCaveEntrance
    \/ GenerateBuildings \/ FindBuildableArea
    \/ SplitNode \/ CreateRoom \/ ConnectRooms \/ BeginFloor \/ ConnectFloors
    \/ AppendBuilding \/ StoreBuildings \/ Return

SpecMap == InitMap /\ [][NextMap]_vars

\* Bounds of the two-call model: the side of the map.
DetSide == 12

\* The calls made twice: generate_buildings(game_map, 1, 3, seed) for an
\* integer seed.
DetCalls ==
    { [count |-> 1, min_size |-> 3, seed |-> <<sd>>, register |-> FALSE] :
        sd \in {0, 1, 2} }

\* The first of two calls of generate_buildings with equal arguments on a
\* fresh map, up to its loop.
InitDet ==
    /\ game_map = GameMap(DetSide, DetSide)
    /\ error = NoError
    /\ ops = 0
    /\ last_op = Called("generate_buildings", << >>, None)
    /\ before = game_map
    /\ kept = << >>
    /\ gen_call \in DetCalls
    /\ \E d \in randint(Random(gen_call.seed), 0, 1) :
         /\ grng = d.rng
         /\ multi_floor_count = Min2(gen_call.count \div 2 + d.val, gen_call.count)
    /\ gen_i = 0
    /\ buildings = << >>
    /\ gpc = "place"
    /\ run = 1
    /\ first_buildings = << >>
    /\ IdleCave
    /\ IdleQuest
    /\ IdleInv
    /\ IdleBuild

\* The first call has returned; the second call begins, up to its loop.
SecondCall ==
    /\ run = 1
    /\ gpc = "returned"
    /\ first_buildings' = buildings
    /\ run' = 2
    /\ \E d \in randint(Random(gen_call.seed), 0, 1) :
         /\ grng' = d.rng
         /\ multi_floor_count' =
                Min2(gen_call.count \div 2 + d.val, gen_call.count)
    /\ gen_i' = 0
    /\ buildings' = << >>
    /\ gpc' = "place"
    /\ UNCHANGED gen_call
    /\ UNCHANGED <<caveVars, buildVars, mapVars, questVars, invVars>>

NextDet ==
    \/ FindBuildableArea
    \/ SplitNode \/ CreateRoom \/ ConnectRooms \/ BeginFloor \/ ConnectFloors
    \/ AppendBuilding \/ SecondCall

SpecDet == InitDet /\ [][NextDet]_vars

-----------------------------------------------------------------------------
(***************************************************************************)
(*                               quest.py                                  *)
(***************************************************************************)

\* Bound of the quest model: the number of Quest objects.
NumQuests == 2

\* QuestState
QuestState == {"INACTIVE", "ACTIVE", "COMPLETED", "FAILED"}

\* Quest.__init__
Quest(can_fail) == [state |-> "INACTIVE", can_fail |-> can_fail]

\* valid_transitions of Quest.set_state
valid_transitions ==
    [ st \in QuestState |->
        IF st = "INACTIVE" THEN {"ACTIVE"}
        ELSE IF st = "ACTIVE" THEN {"COMPLETED", "FAILED"}
        ELSE {} ]

\* mutant of set_state: the state is assigned without validation
set_state_unchecked(quest, new_state) ==
    [quest |-> [quest EXCEPT !.state = new_state], error |-> NoError]

\* Quest.set_state(new_state): the quest afterwards and the exception.
set_state(quest, new_state) ==
    IF new_state \notin valid_transitions[quest.state]
    THEN [quest |-> quest, error |-> "ValueError"]
    ELSE [quest |-> [quest EXCEPT !.state = new_state], error |-> NoError]

\* Quest.activate()
activate(quest) == set_state(quest, "ACTIVE")

\* Quest.complete()
complete(quest) == set_state(quest, "COMPLETED")

\* Quest.fail()
fail(quest) ==
    IF ~quest.can_fail THEN [quest |-> quest, error |-> "ValueError"]
    ELSE set_state(quest, "FAILED")

\* Quest(...) for each of the quests, which can fail or not.
InitQuest ==
    /\ quests \in [ 1 .. NumQuests -> { Quest(f) : f \in BOOLEAN } ]
    /\ quest_op = None
    /\ quest_error = NoError
    /\ IdleCave
    /\ IdleBuild
    /\ IdleMap
    /\ IdleGen
    /\ IdleInv

\* A method of quest q is called, asking for state `requested`, and ends as
\* `out` says.
QuestCall(q, name, requested, out) ==
    /\ quests' = [quests EXCEPT ![q] = out.quest]
    /\ quest_error' = out.error
    /\ quest_op' = [name |-> name, quest |-> q, requested |-> requested,
                    from |-> quests[q].state]
    /\ UNCHANGED <<caveVars, buildVars, mapVars, genVars, invVars>>

Activate ==
    \E q \in DOMAIN quests :
        QuestCall(q, "activate", "ACTIVE", activate(quests[q]))

Complete ==
    \E q \in DOMAIN quests :
        QuestCall(q, "complete", "COMPLETED", complete(quests[q]))

Fail ==
    \E q \in DOMAIN quests :
        QuestCall(q, "fail", "FAILED", fail(quests[q]))

SetState ==
    \E q \in DOMAIN quests, new_state \in QuestState :
        QuestCall(q, "set_state", new_state, set_state(quests[q], new_state))

NextQuest == Activate \/ Complete \/ Fail \/ SetState

SpecQuest == InitQuest /\ [][NextQuest]_vars

-----------------------------------------------------------------------------
(***************************************************************************)
(*                             inventory.py                                *)
(***************************************************************************)

\* Bounds of the inventory model: the capacity of the inventory and the
\* largest quantity passed to remove_item.
Capacity == 6
MaxRemove == 2

\* Item.__init__: weapons and quest items never stack.
Item(name, item_type, weight, stackable, quantity) ==
    [name |-> name, item_type |-> item_type, unit_weight |-> weight,
     weight |-> weight * quantity,
     stackable |-> IF item_type \in {"WEAPON", "QUEST"} THEN FALSE
                   ELSE stackable,
     quantity |-> quantity]

\* The Item objects made: two stackable items of one name and type with
\* different unit weights, an item made with stackable=False and quantity
\* 2, and a weapon.
ItemPool ==
    << Item("ore", "GENERAL", 5, TRUE, 1),
       Item("ore", "GENERAL", 1, TRUE, 1),
       Item("gem", "GENERAL", 1, FALSE, 2),
       Item("sword", "WEAPON", 2, TRUE, 1) >>

\* The names passed to remove_item.
ItemNames == {"ore", "gem", "sword", "key"}

\* Inventory.__init__
Inventory(capacity) ==
    [capacity |-> capacity, current_weight |-> 0, items |-> << >>]

\* Item.stack_with(other): whether the items stack.
stacks(self, other) ==
    ~(\/ ~self.stackable
      \/ ~other.stackable
      \/ self.name # other.name
      \/ self.item_type # other.item_type)

\* Item.stack_with(other), for items that stack: self afterwards.
stack_with(self, other) ==
    LET quantity == self.quantity + other.quantity
    IN  [self EXCEPT !.quantity = quantity,
                     !.weight = self.unit_weight * quantity]

\* The positions of inv.items at which add_item stacks `item`: those of an
\* existing item of its name and type that stacks with it.
stack_positions(inv, objects, item) ==
    { i \in 1 .. Len(inv.items) :
        /\ objects[inv.items[i]].name = item.name
        /\ objects[inv.items[i]].item_type = item.item_type
        /\ stacks(objects[inv.items[i]], item) }

\* Inventory.add_item(item) for the Item object `id`: the value returned,
\* the inventory and the objects afterwards.
add_item(inv, objects, id) ==
    LET item == objects[id]
        at == IF item.stackable THEN stack_positions(inv, objects, item)
              ELSE {}
    IN  IF inv.current_weight + item.weight > inv.capacity
        THEN [result |-> FALSE, inv |-> inv, objects |-> objects]
        ELSE IF at # {}
        THEN LET existing == inv.items[SetMin(at)]
                 old_weight == objects[existing].weight
                 stacked == stack_with(objects[existing], item)
             IN  [result |-> TRUE,
                  inv |-> [inv EXCEPT !.current_weight =
                              @ + (stacked.weight - old_weight)],
                  objects |-> [objects EXCEPT ![existing] = stacked]]
        ELSE [result |-> TRUE,
              inv |-> [inv EXCEPT !.items = Append(@, id),
                                  !.current_weight = @ + item.weight],
              objects |-> objects]

\* list.pop(i), for i from 1.
Pop(list, i) == SubSeq(list, 1, i - 1) \o SubSeq(list, i + 1, Len(list))

\* Inventory.remove_item(item_name, quantity)
remove_item(inv, objects, item_name, quantity) ==
    LET at == { i \in 1 .. Len(inv.items) :
                  objects[inv.items[i]].name = item_name }
    IN  IF at = {}
        THEN [result |-> FALSE, inv |-> inv, objects |-> objects]
        ELSE LET i == SetMin(at)
                 id == inv.items[i]
                 item == objects[id]
             IN  IF item.quantity <= quantity
                 THEN [result |-> TRUE,
                       inv |-> [inv EXCEPT
                                   !.current_weight = @ - item.weight,
                                   !.items = Pop(@, i)],
                       objects |-> objects]
                 ELSE [result |-> TRUE,
                       inv |-> [inv EXCEPT
                                   !.current_weight =
                                       @ - item.unit_weight * quantity],
                       objects |-> [objects EXCEPT ![id] =
                           [@ EXCEPT !.quantity = item.quantity - quantity,
                                     !.weight = item.unit_weight
                                                * (item.quantity - quantity)]]]

\* Inventory(Capacity), and the Item objects.
InitInv ==
    /\ item_objects = ItemPool
    /\ inventory = Inventory(Capacity)
    /\ inv_op = None
    /\ IdleCave
    /\ IdleBuild
    /\ IdleMap
    /\ IdleGen
    /\ IdleQuest

\* A method of the inventory is called and ends as `out` says.
InvCall(name, args, out) ==
    /\ inventory' = out.inv
    /\ item_objects' = out.objects
    /\ inv_op' = [name |-> name, args |-> args, result |-> out.result,
                  before |-> inventory]
    /\ UNCHANGED <<caveVars, buildVars, mapVars, genVars, questVars>>

AddItem ==
    \E id \in DOMAIN item_objects :
        InvCall("add_item", <<id>>, add_item(inventory, item_objects, id))

RemoveItem ==
    \E item_name \in ItemNames, quantity \in 1 .. MaxRemove :
        InvCall("remove_item", <<item_name, quantity>>,
                remove_item(inventory, item_objects, item_name, quantity))

NextInv == AddItem \/ RemoveItem

SpecInv == InitInv /\ [][NextInv]_vars

-----------------------------------------------------------------------------
(***************************************************************************)
(*                      Claims about structure.py                          *)
(***************************************************************************)

\* The lists of vertical_connections, the empty list for a floor with none.
ConnectionsOn(b, f) ==
    IF f \in DOMAIN b.vertical_connections
    THEN b.vertical_connections[f] ELSE << >>

\* C4: in a building generate_multi_floor_building returns, every vertical
\* connection on floor f with target floor g, position p and target
\* position q has a match on floor g with target floor f, position q and
\* target position p, of the complementary kind.
C4_VerticalReciprocal ==
    (bpc = "done" /\ call.multi) =>
        \A f \in DOMAIN building.vertical_connections :
            \A i \in 1 .. Len(building.vertical_connections[f]) :
                LET c == building.vertical_connections[f][i]
                    back == ConnectionsOn(building, c.target_floor)
                IN  \E j \in 1 .. Len(back) :
                        /\ back[j].target_floor = f
                        /\ back[j].position = c.target_position
                        /\ back[j].target_position = c.position
                        /\ <<c.type, back[j].type>> \in
                               { <<"STAIR_UP", "STAIR_DOWN">>,
                                 <<"STAIR_DOWN", "STAIR_UP">>,
                                 <<"LADDER_UP", "LADDER_DOWN">>,
                                 <<"LADDER_DOWN", "LADDER_UP">> }

\* C4 witness: a finished workshop whose ground floor has a ladder up.
C4_Witness ==
    /\ bpc = "done"
    /\ call.multi
    /\ 0 \in DOMAIN building.vertical_connections
    /\ building.vertical_connections[0][1].type = "LADDER_UP"
    /\ building.vertical_connections[1][1].type = "LADDER_DOWN"

\* C5: the room create_room makes in a leaf lies strictly inside the leaf,
\* with a margin of at least one cell on all four sides.
C5_RoomInsideLeaf ==
    \A i \in 1 .. Len(leaf_nodes) :
        LET leaf == leaf_nodes[i]
        IN  leaf.room # None =>
                /\ leaf.x < leaf.room[1]
                /\ leaf.y < leaf.room[2]
                /\ leaf.room[1] + leaf.room[3] < leaf.x + leaf.width
                /\ leaf.room[2] + leaf.room[4] < leaf.y + leaf.height

\* C6: every room of the building generate_building returns lies inside the
\* footprint: x <= rx, y <= ry, rx + rw < x + width, ry + rh < y + height.
C6_RoomInsideFootprint ==
    (bpc = "done" /\ ~call.multi) =>
        \A i \in 1 .. Len(building.rooms) :
            LET r == building.rooms[i]
                fp == building.footprint
            IN  /\ fp[1] <= r[1]
                /\ fp[2] <= r[2]
                /\ r[1] + r[3] < fp[1] + fp[3]
                /\ r[2] + r[4] < fp[2] + fp[4]

\* C7: every room created for a call with minimum room size m has width
\* and height at least m.
C7_RoomAtLeastMinimum ==
    \A i \in 1 .. Len(rooms) :
        /\ rooms[i][3] >= call.min_room_size
        /\ rooms[i][4] >= call.min_room_size

\* C17: generate_multi_floor_building with floor count n returns floor
\* layouts for exactly the floors 0 .. n - 1 (a count below 1 counts as 1),
\* each with at least one room, and for n >= 2 vertical connections with
\* an entry for every floor 0 .. n - 1.
C17_EveryFloorLaidOutAndConnected ==
    (bpc = "done" /\ call.multi) =>
        LET n == IF call.floors < 1 THEN 1 ELSE call.floors
        IN  /\ DOMAIN building.floor_layouts = 0 .. (n - 1)
            /\ \A f \in 0 .. (n - 1) :
                   building.floor_layouts[f].rooms # << >>
            /\ n >= 2 =>
                   \A f \in 0 .. (n - 1) :
                       f \in DOMAIN building.vertical_connections

\* C18: the footprint of every upper floor generate_multi_floor_building
\* returns lies inside the footprint of the ground floor.
C18_UpperFloorInsideBase ==
    (bpc = "done" /\ call.multi) =>
        \A f \in DOMAIN building.floor_layouts \ {0} :
            LET fp == building.floor_layouts[f].footprint
            IN  /\ fp[1] >= call.x
                /\ fp[2] >= call.y
                /\ fp[1] + fp[3] <= call.x + call.width
                /\ fp[2] + fp[4] <= call.y + call.height

-----------------------------------------------------------------------------
(***************************************************************************)
(*              Claims about map.py and building placement                 *)
(***************************************************************************)

\* C3: the transition table is reciprocal: a coordinate listed for level z
\* and target level t is also listed for level t and target level z.
C3_TransitionsReciprocal ==
    \A z \in DOMAIN game_map.level_transitions :
        \A t \in DOMAIN game_map.level_transitions[z] :
            \A i \in 1 .. Len(game_map.level_transitions[z][t]) :
                /\ t \in DOMAIN game_map.level_transitions
                /\ z \in DOMAIN game_map.level_transitions[t]
                /\ \E j \in 1 .. Len(game_map.level_transitions[t][z]) :
                       game_map.level_transitions[t][z][j]
                           = game_map.level_transitions[z][t][i]

\* C3 witness: a cave entrance was placed and a building with a connection
\* between its floors registered, so level 0 has transitions to the level
\* below and to the level above.
C3_Witness ==
    /\ gpc = "stored"
    /\ -1 \in DOMAIN game_map.level_transitions[0]
    /\ 1 \in DOMAIN game_map.level_transitions[0]
    /\ Len(game_map.level_transitions[1][0]) >= 2

\* The last operation called on the map was `name`.
LastCalled(name) == gpc = "idle" /\ last_op.name = name

\* C11: generate_cave_entrance on a level whose terrain grid has only water
\* and beach tiles raises an error and changes nothing: the terrain grid,
\* the levels and the transition table are as before the call.
C11_NoSuitableCellFails ==
    (LastCalled("generate_cave_entrance") /\ suitable(before) = {}) =>
        /\ error = "ValueError"
        /\ game_map.tiles = before.tiles
        /\ game_map.z_levels = before.z_levels
        /\ game_map.level_transitions = before.level_transitions

\* C11 witness: generate_cave_entrance was called on a map whose terrain
\* had been generated and is all water.
C11_Witness ==
    /\ LastCalled("generate_cave_entrance")
    /\ suitable(before) = {}
    /\ \A c \in DOMAIN before.tiles : before.tiles[c] = "WATER"
    /\ error = "ValueError"

\* C12: generate_cave_entrance on a level with a tile that is neither water
\* nor beach succeeds: the returned cell was neither water nor beach, it is
\* a cave entrance on the current level afterwards, level -1 exists, and
\* the returned coordinate is listed from the current level to level -1
\* and from level -1 to the current level.
C12_EntrancePlaced ==
    (LastCalled("generate_cave_entrance") /\ suitable(before) # {}) =>
        /\ error = NoError
        /\ LET x == last_op.result[1]
               y == last_op.result[2]
               cell == y * game_map.width + x
               z == before.current_z
           IN  /\ x \in 0 .. (game_map.width - 1)
               /\ y \in 0 .. (game_map.height - 1)
               /\ before.tiles[cell] \notin {"WATER", "BEACH"}
               /\ game_map.current_z = z
               /\ game_map.tiles[cell] = "CAVE_ENTRANCE"
               /\ -1 \in DOMAIN game_map.z_levels
               /\ -1 \in DOMAIN game_map.level_transitions[z]
               /\ \E i \in 1 .. Len(game_map.level_transitions[z][-1]) :
                      game_map.level_transitions[z][-1][i] = <<x, y>>
               /\ z \in DOMAIN game_map.level_transitions[-1]
               /\ \E i \in 1 .. Len(game_map.level_transitions[-1][z]) :
                      game_map.level_transitions[-1][z][i] = <<x, y>>

\* C12 witness: an entrance was placed on generated terrain that has water,
\* and the call made level -1.
C12_Witness ==
    /\ LastCalled("generate_cave_entrance")
    /\ error = NoError
    /\ \E c \in DOMAIN before.tiles : before.tiles[c] = "WATER"
    /\ -1 \notin DOMAIN before.z_levels
    /\ -1 \in DOMAIN game_map.z_levels

\* C13: add_z_level(z) for a level that exists raises an error and leaves
\* the level's stored data (terrain, heights, buildings, entrances) and its
\* entry of the transition table as they were.
C13_DuplicateLevelFails ==
    (LastCalled("add_z_level") /\ last_op.args[1] \in DOMAIN before.z_levels) =>
        /\ error = "ValueError"
        /\ game_map.z_levels[last_op.args[1]] = before.z_levels[last_op.args[1]]
        /\ game_map.level_transitions[last_op.args[1]]
               = before.level_transitions[last_op.args[1]]

\* C13 witness: add_z_level(0) was called on a map whose level 0 holds
\* generated terrain and a transition.
C13_Witness ==
    /\ LastCalled("add_z_level")
    /\ last_op.args[1] = 0
    /\ error = "ValueError"
    /\ before.z_levels[0] # NewLevel(before.width, before.height)
    /\ DOMAIN before.level_transitions[0] # {}

\* The level numbers among the arguments of the last operation.
LevelsNamed ==
    IF last_op.name = "add_level_transition"
    THEN {last_op.args[1], last_op.args[2]}
    ELSE {last_op.args[1]}

\* C14: change_level, get_level_transitions and add_level_transition with
\* a level that does not exist raise an error and leave the map as it was:
\* the current level, the current grids, the levels and the transition
\* table.
C14_MissingLevelFails ==
    (/\ gpc = "idle"
     /\ last_op.name \in {"change_level", "get_level_transitions",
                           "add_level_transition"}
     /\ \E z \in LevelsNamed : z \notin DOMAIN before.z_levels) =>
        /\ error = "ValueError"
        /\ game_map.current_z = before.current_z
        /\ game_map.tiles = before.tiles
        /\ game_map.heightmap = before.heightmap
        /\ game_map.z_levels = before.z_levels
        /\ game_map.level_transitions = before.level_transitions

\* C14 witness: add_level_transition was called from a level that exists
\* to one that does not, on a map with two levels.
C14_Witness ==
    /\ LastCalled("add_level_transition")
    /\ last_op.args[1] \in DOMAIN before.z_levels
    /\ last_op.args[2] \notin DOMAIN before.z_levels
    /\ Cardinality(DOMAIN before.z_levels) = 2
    /\ error = "ValueError"

\* C15: apply_cave_layout with a layout whose shape is not (height, width)
\* raises an error and leaves the current terrain and heights unchanged.
C15_ShapeMismatchFails ==
    (/\ LastCalled("apply_cave_layout")
     /\ last_op.args # <<before.height, before.width>>) =>
        /\ error = "ValueError"
        /\ game_map.tiles = before.tiles
        /\ game_map.heightmap = before.heightmap

\* C15 witness: a layout one column too wide was applied to a map with
\* generated terrain.
C15_Witness ==
    /\ LastCalled("apply_cave_layout")
    /\ last_op.args = <<before.height, before.width + 1>>
    /\ error = "ValueError"
    /\ before.tiles # Grid(before.width, before.height, "GRASS")

\* C16: after change_level(a) the current terrain grid is the one level a
\* had when the map last left it, whatever was done on other levels in
\* between.
C16_LevelKeepsTerrain ==
    (/\ LastCalled("change_level")
     /\ error = NoError
     /\ last_op.args[1] \in DOMAIN kept) =>
        game_map.tiles = kept[last_op.args[1]]

\* C16 witness: the map is back on level 0, whose terrain has a cave
\* entrance, after a cave layout was applied on the level below.
C16_Witness ==
    /\ LastCalled("change_level")
    /\ error = NoError
    /\ last_op.args[1] = 0
    /\ before.current_z = -1
    /\ 0 \in DOMAIN kept
    /\ \E c \in DOMAIN game_map.tiles : game_map.tiles[c] = "CAVE_ENTRANCE"
    /\ \E c \in DOMAIN before.tiles : before.tiles[c] = "CAVE_WALL"

\* C19: after generate_terrain and after add_terrain_features every value
\* of the elevation grid lies in [0.0, 1.0], for every size of the grid.
C19_HeightsNormalized ==
    (gpc = "idle" /\ last_op.name \in {"generate_terrain",
                                        "add_terrain_features"}) =>
        \A c \in DOMAIN game_map.heightmap :
            game_map.heightmap[c] \in 0 .. 1000

\* C8: no cell of the current level's terrain inside the footprint of a
\* building generate_buildings returns is water or rock.
C8_FootprintAvoidsWaterAndRock ==
    gpc = "returned" =>
        \A i \in 1 .. Len(buildings) :
            LET fp == buildings[i].footprint
            IN  \A yy \in fp[2] .. (fp[2] + fp[4] - 1) :
                    \A xx \in fp[1] .. (fp[1] + fp[3] - 1) :
                        game_map.tiles[yy * game_map.width + xx]
                            \notin {"WATER", "ROCK"}

\* C10: building placement never ends in an exception: a search that finds
\* no area ends the round, and generate_buildings goes on.
C10_PlacementNeverRaises == gpc # "raised"

\* C9: two calls of generate_buildings with the same integer seed, map and
\* parameters return the same list of buildings.
C9_SameSeedSameBuildings ==
    (run = 2 /\ gpc = "returned") => buildings = first_buildings

-----------------------------------------------------------------------------
(***************************************************************************)
(*                         Claims about quest.py                           *)
(***************************************************************************)

\* The moves a quest's state can make.
QuestMoves ==
    { <<"INACTIVE", "ACTIVE">>, <<"ACTIVE", "COMPLETED">>,
      <<"ACTIVE", "FAILED">> }

\* C20: a call of activate, complete, fail or set_state either leaves the
\* quest's state as it was or moves it INACTIVE -> ACTIVE, ACTIVE ->
\* COMPLETED or ACTIVE -> FAILED, to the state asked for; a COMPLETED or
\* FAILED quest never changes; every other transition asked for raises an
\* error and leaves the state unchanged, and a state is left unchanged only
\* with an error.
C20_QuestStateMachine ==
    quest_op # None =>
        LET was == quest_op.from
            now == quests[quest_op.quest].state
        IN  /\ now = was \/ (<<was, now>> \in QuestMoves /\ now = quest_op.requested)
            /\ was \in {"COMPLETED", "FAILED"} => now = was
            /\ <<was, quest_op.requested>> \notin QuestMoves =>
                   quest_error = "ValueError" /\ now = was
            /\ quest_error = NoError => now = quest_op.requested
            /\ quest_error # NoError => now = was

\* C20 witness: set_state(ACTIVE) was called on a completed quest and
\* raised, while the other quest has failed.
C20_Witness ==
    /\ quest_op # None
    /\ quest_op.name = "set_state"
    /\ quest_op.from = "COMPLETED"
    /\ quest_op.requested = "ACTIVE"
    /\ quest_error = "ValueError"
    /\ \E q \in DOMAIN quests : quests[q].state = "FAILED"

-----------------------------------------------------------------------------
(***************************************************************************)
(*                       Claims about inventory.py                         *)
(***************************************************************************)

\* The sum of the weights of the items of a list of item identities.
RECURSIVE HeldWeight(_, _)
HeldWeight(items, objects) ==
    IF items = << >> THEN 0
    ELSE objects[Head(items)].weight + HeldWeight(Tail(items), objects)

\* C21: after any sequence of add_item and remove_item calls
\* current_weight is at most the capacity and is the sum of the weights of
\* the held items; an add rejected for capacity leaves the item list and
\* current_weight unchanged.
C21_WeightWithinCapacity ==
    /\ inventory.current_weight <= inventory.capacity
    /\ inventory.current_weight = HeldWeight(inventory.items, item_objects)
    /\ (inv_op # None /\ inv_op.name = "add_item" /\ ~inv_op.result) =>
           /\ inventory.items = inv_op.before.items
           /\ inventory.current_weight = inv_op.before.current_weight


\* ------------------------------------------------------------------
\* Claims about cave.py: the automaton rule and the connectivity repair
\* ------------------------------------------------------------------

\* The wall cells among the 8 Moore neighbours of a non-border cell.
MooreWalls(g, c) ==
    Cardinality({ d \in CaveCells :
        /\ d # c
        /\ CaveX(d) \in (CaveX(c) - 1) .. (CaveX(c) + 1)
        /\ CaveY(d) \in (CaveY(c) - 1) .. (CaveY(c) + 1)
        /\ g[d] })

\* C22: one automaton iteration with death limit <= birth limit makes every
\* non-border cell a wall when at least birth-limit of its 8 neighbours were
\* walls in the previous grid, a floor when fewer than death-limit were, and
\* leaves it as it was otherwise; every cell reads the previous grid.
C22_AutomatonRule ==
    [][ (iteration' = iteration + 1 /\ params.death_limit <= params.birth_limit) =>
            \A c \in CaveCells :
                ~IsBorder(c) =>
                    LET n == MooreWalls(cave, c)
                    IN  /\ n >= params.birth_limit => cave'[c]
                        /\ n < params.death_limit => ~cave'[c]
                        /\ (n < params.birth_limit /\ n >= params.death_limit) =>
                               cave'[c] = cave[c] ]_vars

\* An iteration has run under death limit <= birth limit and left both
\* walls and floors in the interior.
C22_Witness ==
    /\ iteration >= 1
    /\ params.death_limit <= params.birth_limit
    /\ \E c, d \in CaveCells :
           ~IsBorder(c) /\ ~IsBorder(d) /\ cave[c] /\ ~cave[d]

BorderAllWall(g) == \A c \in CaveCells : IsBorder(c) => g[c]

\* C23: the connectivity repair never opens the outer border: when every
\* border cell of the input grid is a wall, every border cell of the
\* returned grid is a wall.
C23_RepairKeepsBorder ==
    (cavePc \in {"connect", "done"} /\ BorderAllWall(cave)) =>
        BorderAllWall(connected_cave)

\* The repair has carved a tunnel into a grid whose border was all wall.
C23_Witness ==
    /\ cavePc = "done"
    /\ BorderAllWall(cave)
    /\ Len(labeled_array) > 1
    /\ connected_cave # cave

\* C24: the repair only removes walls (a cell open in the input is open in
\* the returned grid), it returns the input unchanged when the open cells
\* form at most one region, and it never modifies the input grid.
C24_RepairOnlyRemovesWalls ==
    /\ [](cavePc \in {"connect", "done"} =>
            /\ \A c \in CaveCells : ~cave[c] => ~connected_cave[c]
            /\ (cavePc = "done" /\ Len(labeled_array) <= 1) =>
                   connected_cave = cave)
    /\ [][cavePc' \in {"connect", "done"} => cave' = cave]_vars

\* The repair has finished on a grid with several regions, one of its open
\* cells lying outside every tunnel it carved.
C24_Witness ==
    /\ cavePc = "done"
    /\ Len(labeled_array) > 1
    /\ connected_cave # cave
    /\ \E c \in CaveCells : ~cave[c] /\ ~connected_cave[c]


\* ------------------------------------------------------------------
\* Claims about structure.py: splitting, corridors, connectors
\* ------------------------------------------------------------------

\* The cells of a rectangle with fields x, y, width, height.
CellsOf(n) ==
    { <<px, py>> : px \in n.x .. (n.x + n.width - 1),
                   py \in n.y .. (n.y + n.height - 1) }

CorridorsOf(rs, cs) ==
    LET n == Len(rs)
        chain == IF n > 1 THEN n - 1 ELSE 0
    IN  /\ Len(cs) \in {chain, chain + 1}
        /\ \A i \in 1 .. chain : cs[i] = <<i - 1, i>>
        /\ Len(cs) = chain + 1 => (n > 3 /\ cs[chain + 1] = <<0, n - 1>>)
        /\ \A i \in 1 .. Len(cs) :
               cs[i][1] \in 0 .. (n - 1) /\ cs[i][2] \in 0 .. (n - 1)
        /\ n > 1 =>
               \A k \in 0 .. (n - 1) :
                   \E i \in 1 .. Len(cs) : k = cs[i][1] \/ k = cs[i][2]

\* C26: the corridors of a layout with n rooms are the chain (0,1), ...,
\* (n-2,n-1), optionally followed by (0,n-1) only when n > 3; both ends of
\* every corridor are room indices, and for n > 1 every room has a corridor.
C26_CorridorsChain ==
    bpc = "done" =>
        /\ CorridorsOf(building.rooms, building.corridors)
        /\ "floor_layouts" \in DOMAIN building =>
               \A f \in DOMAIN building.floor_layouts :
                   CorridorsOf(building.floor_layouts[f].rooms,
                               building.floor_layouts[f].corridors)

\* A layout with more than 3 rooms has got the extra corridor.
C26_Witness ==
    /\ bpc = "done"
    /\ Len(building.rooms) > 3
    /\ Len(building.corridors) = Len(building.rooms)

\* The point p is an interior point of the room r = <<rx, ry, rw, rh>>.
InteriorOf(p, r) ==
    /\ r[1] + 1 <= p[1] /\ p[1] <= r[1] + r[3] - 2
    /\ r[2] + 1 <= p[2] /\ p[2] <= r[2] + r[4] - 2

\* C27: every vertical connection joins adjacent floors, stands on an
\* interior point of a room of its own floor, and its target position is an
\* interior point of a room of the target floor.
C27_ConnectorsInsideRooms ==
    (bpc = "done" /\ "vertical_connections" \in DOMAIN building) =>
        \A f \in DOMAIN building.vertical_connections :
            \A i \in 1 .. Len(building.vertical_connections[f]) :
                LET c == building.vertical_connections[f][i]
                    own == building.floor_layouts[f].rooms
                IN  /\ Abs(c.target_floor - f) = 1
                    /\ c.target_floor \in DOMAIN building.floor_layouts
                    /\ \E k \in 1 .. Len(own) : InteriorOf(c.position, own[k])
                    /\ LET there == building.floor_layouts[c.target_floor].rooms
                       IN  \E k \in 1 .. Len(there) :
                               InteriorOf(c.target_position, there[k])

\* A building of two floors has been returned with a connector between them.
C27_Witness ==
    /\ bpc = "done"
    /\ "vertical_connections" \in DOMAIN building
    /\ 0 \in DOMAIN building.vertical_connections
    /\ 1 \in DOMAIN building.vertical_connections

\* C29: when the splitting loop has ended the leaves do not overlap each
\* other, lie inside the root and cover it exactly, and the loop has run at
\* most max_iterations rounds.
C29_LeavesPartitionRoot ==
    bpc \in {"rooms", "connect"} =>
        /\ \A i, j \in 1 .. Len(leaf_nodes) :
               i # j => CellsOf(leaf_nodes[i]) \cap CellsOf(leaf_nodes[j]) = {}
        /\ \A i \in 1 .. Len(leaf_nodes) :
               CellsOf(leaf_nodes[i]) \subseteq CellsOf(root)
        /\ UNION { CellsOf(leaf_nodes[i]) : i \in 1 .. Len(leaf_nodes) }
               = CellsOf(root)
        /\ bsp_iteration <= 10

\* The loop has been cut short by the limit on its rounds, nodes being left
\* to process, with the root split into several leaves.
C29_Witness ==
    /\ bpc = "rooms"
    /\ bsp_iteration = 10
    /\ nodes_to_process # << >>
    /\ Len(leaf_nodes) > 3


\* ------------------------------------------------------------------
\* Claims about registering buildings in the map
\* ------------------------------------------------------------------

\* The sequence a is the beginning of the sequence b.
IsPrefix(a, b) ==
    Len(a) <= Len(b) /\ \A i \in 1 .. Len(a) : a[i] = b[i]

\* C28: after add_buildings_to_map on a map whose current level is b, every
\* level b + f (0 <= f < n) of every placed building with n floors exists
\* and lists that building; the levels that existed before are still there
\* with their grids and with the buildings they listed, and the arrays of
\* the current level are untouched.
C28_FloorsRegistered ==
    gpc = "stored" =>
        /\ \A i \in 1 .. Len(buildings) :
               \A f \in 0 .. (buildings[i].floors - 1) :
                   LET z == game_map.current_z + f
                   IN  /\ z \in DOMAIN game_map.z_levels
                       /\ "buildings" \in DOMAIN game_map.z_levels[z]
                       /\ \E k \in 1 .. Len(game_map.z_levels[z].buildings) :
                              game_map.z_levels[z].buildings[k] = buildings[i]
        /\ \A z \in DOMAIN before.z_levels :
               /\ z \in DOMAIN game_map.z_levels
               /\ game_map.z_levels[z].tiles = before.z_levels[z].tiles
               /\ game_map.z_levels[z].heightmap = before.z_levels[z].heightmap
               /\ "buildings" \in DOMAIN before.z_levels[z] =>
                      /\ "buildings" \in DOMAIN game_map.z_levels[z]
                      /\ IsPrefix(before.z_levels[z].buildings,
                                  game_map.z_levels[z].buildings)
        /\ game_map.tiles = before.tiles
        /\ game_map.heightmap = before.heightmap
        /\ game_map.current_z = before.current_z

\* A building of several floors has been registered on a map one of whose
\* upper levels existed already, with or without buildings of its own.
C28_Witness ==
    /\ gpc = "stored"
    /\ game_map.current_z + 1 \in DOMAIN before.z_levels
    /\ \E i \in 1 .. Len(buildings) : buildings[i].floors > 1

\* The connectors <<i, k>> of the registered buildings that stand on floor f
\* and lead to floor g: record k of floor f of building i.
ConnectorRecords(f, g) ==
    UNION { { <<i, k>> :
                k \in { k \in 1 .. Len(buildings[i].vertical_connections[f]) :
                          buildings[i].vertical_connections[f][k].target_floor = g } } :
            i \in { i \in 1 .. Len(buildings) :
                      /\ "vertical_connections" \in DOMAIN buildings[i]
                      /\ f \in DOMAIN buildings[i].vertical_connections } }

\* Their positions.
ConnectorsFrom(f, g) ==
    { buildings[c[1]].vertical_connections[f][c[2]].position :
        c \in ConnectorRecords(f, g) }

\* C30: after buildings are registered into a map that had no transitions,
\* every coordinate listed from level base + f to level base + g is the
\* position of a connector of a registered building standing on floor f and
\* leading to floor g, and every such connector contributes exactly one
\* coordinate to that direction.
C30_TransitionsAtConnectors ==
    (/\ gpc = "stored"
     /\ \A z \in DOMAIN before.level_transitions :
            DOMAIN before.level_transitions[z] = {}) =>
        \A z \in DOMAIN game_map.level_transitions :
            \A t \in DOMAIN game_map.level_transitions[z] :
                /\ \A i \in 1 .. Len(game_map.level_transitions[z][t]) :
                       game_map.level_transitions[z][t][i] \in
                           ConnectorsFrom(z - game_map.current_z,
                                          t - game_map.current_z)
                /\ Len(game_map.level_transitions[z][t]) =
                       Cardinality(ConnectorRecords(z - game_map.current_z,
                                                    t - game_map.current_z))

=============================================================================
